---- MODULE Spec2Model ----
(***************************************************************************)
(* Model of the invoicing back office (facturacion): the TimbradoConfig    *)
(* singleton, invoice numbering, invoice creation and the invoice          *)
(* lifecycle handlers, translated from models.py, forms.py, views.py and   *)
(* admin.py.                                                               *)
(*                                                                         *)
(* Strings of the program are sequences of one-character strings, so that  *)
(* prefix tests, split('-'), int(), zero padding and the database's        *)
(* byte-wise Max() are computed as the code computes them.  Dates are day  *)
(* numbers.  A request handler that the claims examine under interleaving  *)
(* is split at its database accesses: every step is one query or one       *)
(* committed transaction.                                                  *)
(***************************************************************************)
EXTENDS Integers, Sequences, FiniteSets, TLC

VARIABLES
    hoy,        \* timezone.now().date()
    configs,    \* table TimbradoConfig: a set of rows
    cfgSeq,     \* last primary key given to a TimbradoConfig row
    facturas,   \* table Factura: a set of rows
    facSeq,     \* last primary key given to a Factura row
    detalles,   \* table DetalleFactura: a set of rows
    session,    \* request.session of each user: the stored captcha operands
    clientes,   \* table Cliente: a set of rows
    cliSeq,     \* last primary key given to a Cliente row
    autenticado, \* the account each browser's session is logged in as, or "nadie"
    pc,         \* position of each in-flight request in its handler
    loc,        \* local variables of each in-flight request
    resp        \* last response (flash message) each request worker produced

vars ==
    <<hoy, configs, cfgSeq, facturas, facSeq, detalles, session, clientes, cliSeq,
      autenticado, pc, loc, resp>>

----------------------------------------------------------------------------
(* Bounds of the model *)

\* days are 0..MaxDia
MaxDia == 2
\* at most this many TimbradoConfig rows are ever created
MaxConfigs == 2
\* at most this many Factura rows are ever created
MaxFacturas == 2
\* at most this many Cliente rows exist
MaxClientes == 2
\* at most this many Factura rows are created in the lifecycle scenarios
MaxFacturasVistas == 2
\* the captcha operands are drawn from 1..MaxOperando (random.randint(1, 10) in the code)
MaxOperando == 2
\* an invoice keeps at most this many lines in the scenarios that edit lines
MaxLineas == 2
\* the scenarios that register the timbrado of invoices work on this many invoices
MaxFacturasRegistro == 1

(* Program constants *)

\* settings.NUMERO_FACTURA_INICIO
NUMERO_FACTURA_INICIO == 1000
\* settings.IVA_PERCENTAGE
IVA_PERCENTAGE == 10
\* width of the legacy counter, f"FAC-{nuevo_numero:06d}"
AnchoLegacy == 6
\* width of the timbrado counter, f"{prefix}{nuevo_contador:08d}"
AnchoContador == 8

Dias == 0..MaxDia
Reqs == {"r1", "r2"}
\* the browsers, each with its own session cookie
Navegadores == {"n1", "n2"}
Users == {"ana", "admin", "jefe"}

\* auth.User rows of the model: ana is an ordinary account, admin and jefe are staff
is_staff(u) == u \in {"admin", "jefe"}
is_superuser(u) == FALSE

----------------------------------------------------------------------------
(* Strings *)

Digitos == <<"0", "1", "2", "3", "4", "5", "6", "7", "8", "9">>

EsDigito(c) == \E i \in 1..10 : Digitos[i] = c

ValorDigito(c) == (CHOOSE i \in 1..10 : Digitos[i] = c) - 1

\* code point of a character, for the characters invoice numbers are made of
Ord(c) ==
    IF c = "-" THEN 45
    ELSE IF EsDigito(c) THEN 48 + ValorDigito(c)
    ELSE IF c = "A" THEN 65
    ELSE IF c = "C" THEN 67
    ELSE IF c = "F" THEN 70
    ELSE 127

\* s < t in the database's byte-wise (BINARY) collation
RECURSIVE StrMenor(_, _)
StrMenor(s, t) ==
    IF t = <<>> THEN FALSE
    ELSE IF s = <<>> THEN TRUE
    ELSE IF Ord(Head(s)) < Ord(Head(t)) THEN TRUE
    ELSE IF Ord(Head(s)) > Ord(Head(t)) THEN FALSE
    ELSE StrMenor(Tail(s), Tail(t))

\* Max('numero_factura') over a non-empty set of strings
MaxStr(S) == CHOOSE s \in S : \A t \in S : t = s \/ StrMenor(t, s)

\* numero_factura__startswith=prefix
StartsWith(s, p) == Len(s) >= Len(p) /\ SubSeq(s, 1, Len(p)) = p

\* s.split('-')[-1]
SplitLast(s) ==
    LET cortes == {i \in 1..Len(s) : s[i] = "-"}
        ultimo == IF cortes = {} THEN 0 ELSE CHOOSE i \in cortes : \A j \in cortes : j <= i
    IN  SubSeq(s, ultimo + 1, Len(s))

\* re.match(r'^\d{3}$', s)
EsCodigo3(s) == Len(s) = 3 /\ \A i \in 1..3 : EsDigito(s[i])

\* int(s) succeeds
EsEntero(s) == Len(s) >= 1 /\ \A i \in 1..Len(s) : EsDigito(s[i])

\* int(s) for a string of digits
RECURSIVE ParseInt(_)
ParseInt(s) ==
    IF s = <<>> THEN 0
    ELSE 10 * ParseInt(SubSeq(s, 1, Len(s) - 1)) + ValorDigito(s[Len(s)])

\* str(n) for n >= 0
RECURSIVE Decimal(_)
Decimal(n) ==
    IF n < 10 THEN <<Digitos[n + 1]>>
    ELSE Decimal(n \div 10) \o <<Digitos[(n % 10) + 1]>>

RECURSIVE Ceros(_)
Ceros(k) == IF k <= 0 THEN <<>> ELSE <<"0">> \o Ceros(k - 1)

\* f"{n:0{w}d}": zero padded to at least w digits, never truncated
ZeroPad(n, w) == Ceros(w - Len(Decimal(n))) \o Decimal(n)

FAC == <<"F", "A", "C", "-">>

----------------------------------------------------------------------------
(* TimbradoConfig: model and form *)

\* TimbradoConfig.get_activo() returning None
NoConfig ==
    [pk |-> 0, establecimiento |-> <<>>, punto_expedicion |-> <<>>,
     fecha_inicio |-> 0, fecha_vencimiento |-> 0, activo |-> FALSE,
     creado_por |-> "nadie"]

\* TimbradoConfig.objects.filter(activo=True).first(), Meta.ordering = ['-fecha_creacion']
get_activo(cfgs) ==
    LET activos == {c \in cfgs : c.activo}
    IN  IF activos = {} THEN NoConfig
        ELSE CHOOSE c \in activos : \A d \in activos : d.pk <= c.pk

\* TimbradoConfig.clean(): TRUE when it raises no ValidationError
TimbradoConfig_clean(inst, cfgs) ==
    /\ ~(inst.activo /\ \E c \in cfgs : c.activo /\ (inst.pk = 0 \/ c.pk # inst.pk))
    /\ ~(inst.fecha_vencimiento <= inst.fecha_inicio)

\* the unsaved instance a TimbradoConfigForm builds: activo keeps the field default True
TimbradoConfig_instancia(datos) ==
    [pk |-> 0, establecimiento |-> datos.establecimiento,
     punto_expedicion |-> datos.punto_expedicion,
     fecha_inicio |-> datos.fecha_inicio,
     fecha_vencimiento |-> datos.fecha_vencimiento,
     activo |-> TRUE, creado_por |-> "nadie"]

\* TimbradoConfigForm: clean_establecimiento, clean_punto_expedicion and clean()
TimbradoConfigForm_clean(datos, requiere_confirmacion) ==
    /\ EsCodigo3(datos.establecimiento)
    /\ EsCodigo3(datos.punto_expedicion)
    /\ ~(datos.fecha_vencimiento <= datos.fecha_inicio)
    /\ (requiere_confirmacion => datos.confirmar_reemplazo)

\* TimbradoConfigForm.is_valid(): the form's own cleaning, then the model
\* instance's full_clean(), which runs TimbradoConfig.clean() against the table
TimbradoConfigForm_is_valid(datos, requiere_confirmacion, cfgs) ==
    /\ TimbradoConfigForm_clean(datos, requiere_confirmacion)
    /\ TimbradoConfig_clean(TimbradoConfig_instancia(datos), cfgs)

\* timbrado_configurar: config_activa and not config_expirada
RequiereConfirmacion(config_activa, dia) ==
    config_activa.pk # 0 /\ ~(config_activa.fecha_vencimiento < dia)

\* what a rejected submission shows: the form's own error when only
\* TimbradoConfig.clean() objected, the view's message otherwise.  A date error drops fecha_vencimiento from
\* cleaned_data, so the instance holds None and TimbradoConfig.clean(), once past
\* its activo test, compares None with a date: the TypeError escapes is_valid()
TimbradoConfigForm_error(datos, requiere_confirmacion, cfgs) ==
    IF \E c \in cfgs : c.activo
    THEN IF TimbradoConfigForm_clean(datos, requiere_confirmacion)
         THEN "Ya existe una configuracion de timbrado activa"
         ELSE "Corrija los errores en el formulario"
    ELSE IF datos.fecha_vencimiento <= datos.fecha_inicio
         THEN "Error interno del servidor"
         ELSE "Corrija los errores en el formulario"

\* Model.save() of a loaded row: UPDATE by primary key, INSERT when no row matched
GuardarFila(tabla, fila) == {x \in tabla : x.pk # fila.pk} \cup {fila}

\* Factura.save() / Cliente.save() with no update_fields: every column is
\* written and the auto_now column fecha_actualizacion takes the current time
GuardarConFecha(tabla, fila, ahora) ==
    GuardarFila(tabla, [fila EXCEPT !.fecha_actualizacion = ahora])

\* the transaction of timbrado_configurar
TimbradoGuardar(cfgs, config_activa, datos, user, nuevopk) ==
    LET previas == IF config_activa.pk # 0
                   THEN GuardarFila(cfgs, [config_activa EXCEPT !.activo = FALSE])
                   ELSE cfgs
        nueva_config == [TimbradoConfig_instancia(datos) EXCEPT
                            !.pk = nuevopk, !.activo = TRUE, !.creado_por = user]
    IN  previas \cup {nueva_config}

\* user_passes_test letting every authenticated user through
es_staff_o_superuser_cualquiera(u) == TRUE

\* es_staff_o_superuser(user)
es_staff_o_superuser(u) == is_staff(u) \/ is_superuser(u)

(* Inputs of the timbrado handlers *)

Codigos == {<<"0", "0", "1">>, <<"0", "0", "2">>, <<"1", "2">>}

TimbradoEntradas ==
    [establecimiento : Codigos, punto_expedicion : {<<"0", "0", "1">>},
     fecha_inicio : Dias, fecha_vencimiento : Dias, confirmar_reemplazo : BOOLEAN]

NoTDatos ==
    [establecimiento |-> <<>>, punto_expedicion |-> <<>>, fecha_inicio |-> 0,
     fecha_vencimiento |-> 0, confirmar_reemplazo |-> FALSE]

\* str.upper() on the characters of the confirmation texts
Upper(c) ==
    IF c = "e" THEN "E" ELSE IF c = "l" THEN "L" ELSE IF c = "i" THEN "I"
    ELSE IF c = "m" THEN "M" ELSE IF c = "n" THEN "N" ELSE IF c = "a" THEN "A"
    ELSE IF c = "r" THEN "R" ELSE c

\* str.strip()
RECURSIVE Strip(_)
Strip(s) ==
    IF s = <<>> THEN s
    ELSE IF Head(s) = " " THEN Strip(Tail(s))
    ELSE IF s[Len(s)] = " " THEN Strip(SubSeq(s, 1, Len(s) - 1))
    ELSE s

ELIMINAR == <<"E", "L", "I", "M", "I", "N", "A", "R">>

\* the confirmation text trimmed but compared as typed
NormalizarSinMayusculas(texto) == Strip(texto)

\* request.POST.get('confirmacion', '').strip().upper()
Normalizar(texto) == [i \in 1..Len(Strip(texto)) |-> Upper(Strip(texto)[i])]

Confirmaciones ==
    {ELIMINAR, <<" ", "e", "l", "i", "m", "i", "n", "a", "r", " ">>, <<"N", "O">>, <<>>}

----------------------------------------------------------------------------
(* Factura and DetalleFactura: model and forms *)

Estados == {"PENDIENTE", "PAGADA", "ANULADA"}

\* None in a nullable date column
Ninguna == -1

\* Factura.generar_numero_factura(), legacy branch: no active TimbradoConfig
NumeroLegacy(facts) ==
    LET numeros == {f.numero_factura : f \in facts}
        ultima_factura == MaxStr(numeros)
        nuevo_numero ==
            IF numeros = {} THEN NUMERO_FACTURA_INICIO
            ELSE IF EsEntero(SplitLast(ultima_factura))
                 THEN ParseInt(SplitLast(ultima_factura)) + 1
                 ELSE NUMERO_FACTURA_INICIO
    IN  FAC \o ZeroPad(nuevo_numero, AnchoLegacy)

\* prefix = f"{config.establecimiento}-{config.punto_expedicion}-"
Prefijo(config) == config.establecimiento \o <<"-">> \o config.punto_expedicion \o <<"-">>

\* the timbrado branch with the prefix filter on the Max() query left out
NumeroTimbradoSinFiltro(config, facts) ==
    LET prefix == Prefijo(config)
        todos == {f.numero_factura : f \in facts}
        ultima == MaxStr(todos)
        nuevo_contador ==
            IF todos = {} THEN 1
            ELSE IF EsEntero(SplitLast(ultima))
                 THEN ParseInt(SplitLast(ultima)) + 1
                 ELSE 1
    IN  prefix \o ZeroPad(nuevo_contador, AnchoContador)

\* Factura.generar_numero_factura(), timbrado branch
NumeroTimbrado(config, facts) ==
    LET prefix == Prefijo(config)
        con_prefix == {f.numero_factura : f \in {g \in facts : StartsWith(g.numero_factura, prefix)}}
        ultima_con_prefix == MaxStr(con_prefix)
        nuevo_contador ==
            IF con_prefix = {} THEN 1
            ELSE IF EsEntero(SplitLast(ultima_con_prefix))
                 THEN ParseInt(SplitLast(ultima_con_prefix)) + 1
                 ELSE 1
    IN  prefix \o ZeroPad(nuevo_contador, AnchoContador)

\* Factura.generar_numero_factura()
generar_numero_factura(cfgs, facts) ==
    LET config == get_activo(cfgs)
    IN  IF config.pk = 0 THEN NumeroLegacy(facts) ELSE NumeroTimbrado(config, facts)

\* the gate with the expiry test written >= : the last day of the window refused
TimbradoGateVencimientoExcluido(config_timbrado, dia) ==
    IF config_timbrado.pk = 0 THEN "No hay timbrado configurado en el sistema"
    ELSE IF dia < config_timbrado.fecha_inicio THEN "El timbrado aun no esta vigente"
    ELSE IF dia >= config_timbrado.fecha_vencimiento THEN "El timbrado esta vencido"
    ELSE "ok"

\* the timbrado gate of factura_crear: the message it refuses with, or "ok"
TimbradoGate(config_timbrado, dia) ==
    IF config_timbrado.pk = 0 THEN "No hay timbrado configurado en el sistema"
    ELSE IF dia < config_timbrado.fecha_inicio THEN "El timbrado aun no esta vigente"
    ELSE IF dia > config_timbrado.fecha_vencimiento THEN "El timbrado esta vencido"
    ELSE "ok"

\* the estado choices FacturaForm.__init__ leaves on the field
EstadoChoices(user, es_creacion) ==
    IF es_creacion THEN {"PENDIENTE", "PAGADA"}
    ELSE IF user # "nadie" /\ (is_staff(user) \/ is_superuser(user)) THEN Estados
    ELSE {"PENDIENTE", "PAGADA"}

\* FacturaForm.clean_estado on a value the choice field accepted: the cleaned
\* value, or "error"
clean_estado(estado, user, es_creacion) ==
    IF es_creacion /\ estado = "ANULADA" THEN "PENDIENTE"
    ELSE IF ~es_creacion /\ estado = "ANULADA"
            /\ (user = "nadie" \/ ~(is_staff(user) \/ is_superuser(user)))
    THEN "error"
    ELSE estado

\* FacturaForm.is_valid(): the choice field validates against its choices
\* before clean_estado runs
FacturaForm_is_valid(datos, user, es_creacion, clis) ==
    /\ \E c \in clis : c.pk = datos.cliente /\ c.activo
    /\ datos.estado \in EstadoChoices(user, es_creacion)
    /\ clean_estado(datos.estado, user, es_creacion) # "error"

\* DetalleFacturaForm.clean() on one row
DetalleFacturaForm_is_valid(linea) == linea.cantidad >= 1 /\ linea.precio_unitario > 0

\* a formset built without min_num: no row is required
DetalleFacturaFormSet_is_valid_sin_minimo(lineas) ==
    \A i \in 1..Len(lineas) : DetalleFacturaForm_is_valid(lineas[i])

\* DetalleFacturaFormSet.is_valid(): min_num=1, validate_min=True
DetalleFacturaFormSet_is_valid(lineas) ==
    /\ Len(lineas) >= 1
    /\ \A i \in 1..Len(lineas) : DetalleFacturaForm_is_valid(lineas[i])

\* DetalleFactura.save(): subtotal = cantidad * precio_unitario (in centimos)
DetalleSubtotal(linea) == linea.cantidad * linea.precio_unitario

\* a Decimal in tenths of a centimo stored in a decimal_places=2 column:
\* quantized to centimos, ties to the even neighbour
Quantize(decimas) ==
    LET q == decimas \div 10
        resto == decimas % 10
    IN  IF resto < 5 THEN q
        ELSE IF resto > 5 THEN q + 1
        ELSE IF q % 2 = 0 THEN q ELSE q + 1

RECURSIVE SumaSubtotales(_)
SumaSubtotales(ds) ==
    IF ds = {} THEN 0
    ELSE LET d == CHOOSE x \in ds : TRUE IN d.subtotal + SumaSubtotales(ds \ {d})

\* Factura.calcular_totales(): the row after save(update_fields=[subtotal, iva, total])
calcular_totales(factura, dets) ==
    LET subtotal == SumaSubtotales({d \in dets : d.factura = factura.pk})
        iva_decimas == (subtotal * IVA_PERCENTAGE * 10) \div 100
    IN  [factura EXCEPT !.subtotal = subtotal,
                        !.iva = Quantize(iva_decimas),
                        !.total = Quantize(subtotal * 10 + iva_decimas)]

\* the DetalleFactura rows formset.save() inserts for a new invoice
NuevosDetalles(pk, lineas) ==
    {[factura |-> pk, orden |-> i, cantidad |-> lineas[i].cantidad,
      precio_unitario |-> lineas[i].precio_unitario,
      subtotal |-> DetalleSubtotal(lineas[i])] : i \in 1..Len(lineas)}

\* the Factura row of factura_crear stored as ANULADA
NuevaFacturaAnulada(pk, numero, estado, cliente, ahora) ==
    [pk |-> pk, numero_factura |-> numero, estado |-> "ANULADA",
     subtotal |-> 0, iva |-> 0, total |-> 0,
     timbrado |-> <<>>, timbrado_fecha |-> Ninguna, timbrado_vencimiento |-> Ninguna,
     timbrado_por |-> "nadie", timbrado_fecha_registro |-> Ninguna, activo |-> TRUE,
     cliente |-> cliente, fecha_actualizacion |-> ahora]

\* the Factura row factura_crear builds from the cleaned form
NuevaFactura(pk, numero, estado, cliente, ahora) ==
    [pk |-> pk, numero_factura |-> numero,
     estado |-> IF estado = "ANULADA" THEN "PENDIENTE" ELSE estado,
     subtotal |-> 0, iva |-> 0, total |-> 0,
     timbrado |-> <<>>, timbrado_fecha |-> Ninguna, timbrado_vencimiento |-> Ninguna,
     timbrado_por |-> "nadie", timbrado_fecha_registro |-> Ninguna, activo |-> TRUE,
     cliente |-> cliente, fecha_actualizacion |-> ahora]

\* numero_factura declared without unique=True: every INSERT goes through
NumeroLibreSinUnique(facts, numero) == TRUE

\* the unique constraint on Factura.numero_factura lets the INSERT through
NumeroLibre(facts, numero) == ~\E f \in facts : f.numero_factura = numero

(* Invoice lifecycle *)

\* get_object_or_404(Factura, pk=pk, activo=True) finds a row
Existe(facts, pk, solo_activas) ==
    \E f \in facts : f.pk = pk /\ (solo_activas => f.activo)

Fila(facts, pk) == CHOOSE f \in facts : f.pk = pk

\* Factura.puede_editarse with the status test left out
puede_editarse_siempre(factura) == TRUE

\* Factura.puede_editarse()
puede_editarse(factura) == factura.estado = "PENDIENTE"

\* Factura.puede_anularse with the status test left out
puede_anularse_siempre(factura) == TRUE

\* Factura.puede_anularse()
puede_anularse(factura) == factura.estado # "ANULADA"

\* marcar_pagada writing the void status
marcar_pagada_anulando(factura) == [factura EXCEPT !.estado = "ANULADA"]

\* Factura.marcar_pagada(): the saved row
marcar_pagada(factura) == [factura EXCEPT !.estado = "PAGADA"]

\* Factura.anular(): the saved row
anular(factura) == [factura EXCEPT !.estado = "ANULADA"]

\* FacturaEliminarForm.clean_captcha_respuesta(): TRUE when it raises nothing
clean_captcha_respuesta(respuesta, correcta) == respuesta = correcta

\* the session test of factura_anular left out
captcha_en_sesion_sin_probar(ses) == TRUE

\* 'captcha_a' in request.session and 'captcha_b' in request.session
captcha_en_sesion(ses) == ses # <<>>

\* the confirmation form taking any integer for an answer
FacturaEliminarForm_sin_captcha(respuesta, captcha_a, captcha_b) == EsEntero(respuesta)

\* FacturaEliminarForm.is_valid() once the view has put the session's operands
\* in the form: the IntegerField parses the answer, then clean_captcha_respuesta
FacturaEliminarForm_is_valid(respuesta, captcha_a, captcha_b) ==
    /\ EsEntero(respuesta)
    /\ clean_captcha_respuesta(ParseInt(respuesta), captcha_a + captcha_b)

\* FacturaEliminarForm.__init__ when random.randint draws a and b: the
\* attributes of the form and the operands written in the label of the
\* captcha_respuesta field
FacturaEliminarForm(a, b) ==
    [captcha_a |-> a, captcha_b |-> b, captcha_respuesta_correcta |-> a + b,
     label |-> <<a, b>>]

\* factura_anular, GET: the form rendered in the page
FormularioAnularGet(a, b) == FacturaEliminarForm(a, b)

\* factura_anular, POST: FacturaEliminarForm(request.POST), which draws a and
\* b, with the attributes the view then takes from the session; this is the
\* form rendered again when the answer is refused
FormularioAnularPost(ses, a, b) ==
    [FacturaEliminarForm(a, b) EXCEPT !.captcha_a = ses[1],
                                     !.captcha_b = ses[2],
                                     !.captcha_respuesta_correcta = ses[1] + ses[2]]

\* the session after a void that leaves the operands in it
SesionSinLimpiar(ses, u) == ses

\* request.session.pop('captcha_a', None); request.session.pop('captcha_b', None)
SesionLimpia(ses, u) == [ses EXCEPT ![u] = <<>>]

\* the DetalleFactura rows of an invoice
DetallesDe(dets, pk) == {d \in dets : d.factura = pk}

\* the line number a new row of the invoice gets
RECURSIVE OrdenLibre(_, _)
OrdenLibre(usados, n) == IF n \in usados THEN OrdenLibre(usados, n + 1) ELSE n

\* DetalleFacturaFormSet(request.POST, instance=factura).is_valid(): the rows left
\* after the deletions are at least min_num and every submitted row is valid
FormSetEdicion_is_valid(dets, pk, datos) ==
    LET actuales == {d.orden : d \in DetallesDe(dets, pk)}
    IN  /\ datos.borrar \subseteq actuales
        /\ Cardinality(actuales \ datos.borrar) + Len(datos.nuevas) >= 1
        /\ \A i \in 1..Len(datos.nuevas) : DetalleFacturaForm_is_valid(datos.nuevas[i])
        /\ datos.cambio.orden # 0
              => /\ datos.cambio.orden \in actuales \ datos.borrar
                 /\ DetalleFacturaForm_is_valid(datos.cambio)

\* formset.save() on an existing invoice: marked rows deleted, changed rows saved
\* with their subtotal recomputed, new rows inserted
FormSetEdicion_save(dets, pk, datos) ==
    LET quedan == {d \in dets : ~(d.factura = pk /\ d.orden \in datos.borrar)}
        cambiados == {IF d.factura = pk /\ d.orden = datos.cambio.orden
                      THEN [d EXCEPT !.cantidad = datos.cambio.cantidad,
                                     !.precio_unitario = datos.cambio.precio_unitario,
                                     !.subtotal = DetalleSubtotal(datos.cambio)]
                      ELSE d : d \in quedan}
        usados == {d.orden : d \in DetallesDe(cambiados, pk)}
        nuevos == IF Len(datos.nuevas) = 0 THEN {}
                  ELSE {[factura |-> pk, orden |-> OrdenLibre(usados, 1),
                         cantidad |-> datos.nuevas[1].cantidad,
                         precio_unitario |-> datos.nuevas[1].precio_unitario,
                         subtotal |-> DetalleSubtotal(datos.nuevas[1])]}
    IN  cambiados \cup nuevos

\* the inline formset of the admin change form is valid: no min_num, every
\* submitted row that is not marked for deletion passes the field validators
InlineFormSet_is_valid(dets, pk, datos) ==
    LET actuales == {d.orden : d \in DetallesDe(dets, pk)}
    IN  /\ datos.borrar \subseteq actuales
        /\ \A i \in 1..Len(datos.nuevas) : DetalleFacturaForm_is_valid(datos.nuevas[i])
        /\ datos.cambio.orden # 0
              => /\ datos.cambio.orden \in actuales
                 /\ datos.cambio.orden \notin datos.borrar => DetalleFacturaForm_is_valid(datos.cambio)

\* the Factura row after the inline formset is saved: the rows are handled in
\* order, a marked row by delete(), which recomputes nothing, a changed or a new
\* row by DetalleFactura.save(), which ends with factura.calcular_totales() over
\* the rows stored at that moment
InlineFormSet_totales(factura, dets, datos) ==
    LET final == FormSetEdicion_save(dets, factura.pk, datos)
        c == datos.cambio.orden
        por_borrar == {d \in DetallesDe(dets, factura.pk) : d.orden \in datos.borrar /\ d.orden > c}
    IN  IF Len(datos.nuevas) > 0 THEN calcular_totales(factura, final)
        ELSE IF c # 0 /\ c \notin datos.borrar THEN calcular_totales(factura, final \cup por_borrar)
        ELSE factura

\* str.strip().replace('-', '').replace(' ', '')
RECURSIVE SinSeparadores(_)
SinSeparadores(s) ==
    IF s = <<>> THEN s
    ELSE IF Head(s) \in {"-", " "} THEN SinSeparadores(Tail(s))
    ELSE <<Head(s)>> \o SinSeparadores(Tail(s))

\* TimbradoForm.clean_timbrado(): the cleaned value
clean_timbrado(timbrado) == IF timbrado = <<>> THEN timbrado ELSE SinSeparadores(timbrado)

\* TimbradoForm.is_valid(): re.match(r'^\d{8,15}$') on the cleaned number, and
\* the end date after the start date when both are given
TimbradoForm_is_valid(datos) ==
    /\ datos.timbrado # <<>>
          => LET t == clean_timbrado(datos.timbrado)
             IN  Len(t) >= 8 /\ Len(t) <= 15 /\ \A i \in 1..Len(t) : EsDigito(t[i])
    /\ ~(/\ datos.timbrado_fecha # Ninguna
         /\ datos.timbrado_vencimiento # Ninguna
         /\ datos.timbrado_vencimiento <= datos.timbrado_fecha)

\* a registration that records the user and the time of every submission
TimbrarFacturaCadaVez(factura, datos, user, ahora) ==
    [factura EXCEPT !.timbrado = clean_timbrado(datos.timbrado),
                    !.timbrado_fecha = datos.timbrado_fecha,
                    !.timbrado_vencimiento = datos.timbrado_vencimiento,
                    !.timbrado_por = user,
                    !.timbrado_fecha_registro = ahora]

\* factura_añadir_timbrado: the row saved inside the transaction
TimbrarFactura(factura, datos, user, ahora) ==
    LET f == [factura EXCEPT !.timbrado = clean_timbrado(datos.timbrado),
                             !.timbrado_fecha = datos.timbrado_fecha,
                             !.timbrado_vencimiento = datos.timbrado_vencimiento]
    IN  IF f.timbrado_por = "nadie"
        THEN [f EXCEPT !.timbrado_por = user, !.timbrado_fecha_registro = ahora]
        ELSE f

\* an update() of every row in one of the states desde, selected or not
ActualizarEstadoSinSeleccion(facts, seleccion, desde, hasta) ==
    {IF f.estado \in desde THEN [f EXCEPT !.estado = hasta] ELSE f : f \in facts}

\* queryset.filter(estado=desde).update(estado=hasta) on the selected rows
ActualizarEstado(facts, seleccion, desde, hasta) ==
    {IF f.pk \in seleccion /\ f.estado \in desde THEN [f EXCEPT !.estado = hasta] ELSE f : f \in facts}

\* the number of rows that update() reports
Actualizadas(facts, seleccion, desde) ==
    Cardinality({f \in facts : f.pk \in seleccion /\ f.estado \in desde})

(* Inputs of factura_crear *)

Lineas == {[cantidad |-> 1, precio_unitario |-> 5], [cantidad |-> 2, precio_unitario |-> 100]}

LineasEntradas ==
    {<<>>, <<[cantidad |-> 1, precio_unitario |-> 5]>>,
     <<[cantidad |-> 1, precio_unitario |-> 5], [cantidad |-> 2, precio_unitario |-> 100]>>,
     <<[cantidad |-> 0, precio_unitario |-> 100]>>}

FacturaEntradas == [estado : Estados, lineas : LineasEntradas, cliente : 1..MaxClientes]

(* Customers *)

\* the values typed into the name and tax-id fields of ClienteForm
Nombres == {"Acme", "Beta"}

Rucs ==
    {<<"8", "0", "0", "1", "2", "3", "-", "4">>, <<"8", "0", "0", "1", "2", "3", "4">>,
     <<"9", "0", "0", "1", "2", "3", "-", "5">>, <<"8", "0", "-", "1">>,
     <<"9", "0", "0", " ", "1", "2", "3", "5">>}

\* the customer registered before the scenarios start
ClientesIniciales ==
    {[pk |-> 1, nombre |-> "Acme", ruc_ci |-> <<"8", "0", "0", "1", "2", "3", "4">>,
      activo |-> TRUE, fecha_actualizacion |-> 0]}

\* clean_ruc_ci comparing and returning the value as typed
clean_ruc_ci_como_tecleado(ruc_ci, instance_pk, clis) ==
    IF ~(EsEntero(SinSeparadores(ruc_ci)) /\ Len(SinSeparadores(ruc_ci)) >= 6) THEN "error"
    ELSE IF \E c \in clis : c.ruc_ci = ruc_ci /\ c.pk # instance_pk THEN "error"
    ELSE ruc_ci

\* ClienteForm.clean_ruc_ci: the value without blanks and hyphens when it is 6 to
\* 10 digits and no other customer has it, or "error"
clean_ruc_ci(ruc_ci, instance_pk, clis) ==
    LET limpio == SinSeparadores(ruc_ci)
    IN  IF ~(EsEntero(limpio) /\ Len(limpio) >= 6 /\ Len(limpio) <= 10) THEN "error"
        ELSE IF \E c \in clis : c.ruc_ci = limpio /\ c.pk # instance_pk THEN "error"
        ELSE limpio

\* ClienteForm.is_valid(); instance_pk is 0 for a form without instance
ClienteForm_is_valid(datos, instance_pk, clis) ==
    clean_ruc_ci(datos.ruc_ci, instance_pk, clis) # "error"

\* ClienteForm.save(): the row with the cleaned values of the form
ClienteForm_save(datos, pk, clis, ahora) ==
    [pk |-> pk, nombre |-> datos.nombre, ruc_ci |-> clean_ruc_ci(datos.ruc_ci, pk, clis),
     activo |-> datos.activo, fecha_actualizacion |-> ahora]

\* the deactivation of cliente_eliminar that keeps the flag
desactivar_sin_efecto(cliente) == cliente

\* cliente.activo = False
desactivar(cliente) == [cliente EXCEPT !.activo = FALSE]

\* cliente.facturas.filter(activo=True).count()
facturas_activas(facts, pk) == Cardinality({f \in facts : f.cliente = pk /\ f.activo})

\* the submissions to cliente_crear and cliente_editar
ClienteEntradas == [nombre : Nombres, ruc_ci : Rucs, activo : BOOLEAN]

----------------------------------------------------------------------------
(* Requests *)

NoFDatos == [estado |-> "PENDIENTE", lineas |-> <<>>, cliente |-> 0]

LocNulo ==
    [user |-> "nadie", config |-> NoConfig, requiere |-> FALSE,
     tdatos |-> NoTDatos, fdatos |-> NoFDatos, numero |-> <<>>]

\* TimbradoConfig rows that requests in flight may still create
ConfigsEnCurso == Cardinality({q \in Reqs : pc[q] \in {"tc_validar", "tc_guardar"}})

\* Factura rows that requests in flight may still create
FacturasEnCurso == Cardinality({q \in Reqs : pc[q] \in {"fc_generar", "fc_guardar"}})

Init ==
    /\ hoy = 0
    /\ configs = {}
    /\ cfgSeq = 0
    /\ facturas = {}
    /\ facSeq = 0
    /\ detalles = {}
    /\ session = [u \in Users |-> <<>>]
    /\ clientes = ClientesIniciales
    /\ cliSeq = Cardinality(ClientesIniciales)
    /\ autenticado = [n \in Navegadores |-> "nadie"]
    /\ pc = [r \in Reqs |-> "idle"]
    /\ loc = [r \in Reqs |-> LocNulo]
    /\ resp = "ninguna"

\* the calendar day advances
Tick ==
    /\ hoy < MaxDia
    /\ hoy' = hoy + 1
    /\ UNCHANGED <<configs, cfgSeq, facturas, facSeq, detalles, session, pc, loc, resp>>
    /\ UNCHANGED <<clientes, cliSeq, autenticado>>

(* timbrado_configurar, split at its database accesses *)

\* timbrado_configurar, POST: the user_passes_test gate, then
\* config_activa = TimbradoConfig.get_activo() and the expiry test
TimbradoConfigurarLeer(r, u) ==
    /\ pc[r] = "idle"
    /\ cfgSeq + ConfigsEnCurso < MaxConfigs
    /\ IF ~es_staff_o_superuser(u)
       THEN /\ resp' = "redirect dashboard"
            /\ UNCHANGED <<pc, loc>>
       ELSE LET config_activa == get_activo(configs)
            IN  /\ loc' = [loc EXCEPT ![r] = [LocNulo EXCEPT
                               !.user = u, !.config = config_activa,
                               !.requiere = RequiereConfirmacion(config_activa, hoy)]]
                /\ pc' = [pc EXCEPT ![r] = "tc_validar"]
                /\ UNCHANGED resp
    /\ UNCHANGED <<clientes, cliSeq, autenticado, hoy, configs, cfgSeq, facturas, facSeq, detalles, session>>

\* timbrado_configurar: form.is_valid() on the submitted data
TimbradoConfigurarValidar(r, datos) ==
    /\ pc[r] = "tc_validar"
    /\ IF TimbradoConfigForm_is_valid(datos, loc[r].requiere, configs)
       THEN /\ loc' = [loc EXCEPT ![r].tdatos = datos]
            /\ pc' = [pc EXCEPT ![r] = "tc_guardar"]
            /\ UNCHANGED resp
       ELSE /\ loc' = [loc EXCEPT ![r] = LocNulo]
            /\ pc' = [pc EXCEPT ![r] = "idle"]
            /\ resp' = TimbradoConfigForm_error(datos, loc[r].requiere, configs)
    /\ UNCHANGED <<clientes, cliSeq, autenticado, hoy, configs, cfgSeq, facturas, facSeq, detalles, session>>

\* timbrado_configurar: the transaction.atomic() block
TimbradoConfigurarGuardar(r) ==
    /\ pc[r] = "tc_guardar"
    /\ configs' = TimbradoGuardar(configs, loc[r].config, loc[r].tdatos, loc[r].user, cfgSeq + 1)
    /\ cfgSeq' = cfgSeq + 1
    /\ loc' = [loc EXCEPT ![r] = LocNulo]
    /\ pc' = [pc EXCEPT ![r] = "idle"]
    /\ resp' = "Configuracion de timbrado guardada exitosamente"
    /\ UNCHANGED <<clientes, cliSeq, autenticado, hoy, facturas, facSeq, detalles, session>>

\* timbrado_configurar, POST, run from start to end with no other request between
TimbradoConfigurar(u, datos) ==
    /\ cfgSeq + ConfigsEnCurso < MaxConfigs
    /\ IF ~es_staff_o_superuser(u)
       THEN /\ resp' = "redirect dashboard"
            /\ UNCHANGED <<configs, cfgSeq>>
       ELSE LET config_activa == get_activo(configs)
                requiere == RequiereConfirmacion(config_activa, hoy)
            IN  IF TimbradoConfigForm_is_valid(datos, requiere, configs)
                THEN /\ configs' = TimbradoGuardar(configs, config_activa, datos, u, cfgSeq + 1)
                     /\ cfgSeq' = cfgSeq + 1
                     /\ resp' = "Configuracion de timbrado guardada exitosamente"
                ELSE /\ resp' = TimbradoConfigForm_error(datos, requiere, configs)
                     /\ UNCHANGED <<configs, cfgSeq>>
    /\ UNCHANGED <<clientes, cliSeq, autenticado, hoy, facturas, facSeq, detalles, session, pc, loc>>

\* timbrado_eliminar: GET shows the page, POST deletes on the typed confirmation
TimbradoEliminar(u, pk, post, texto) ==
    /\ IF ~es_staff_o_superuser(u)
       THEN /\ resp' = "redirect dashboard"
            /\ UNCHANGED configs
       ELSE IF ~\E c \in configs : c.pk = pk
       THEN /\ resp' = "Error al eliminar la configuracion"
            /\ UNCHANGED configs
       ELSE IF ~post
       THEN /\ resp' = "ninguna"
            /\ UNCHANGED configs
       ELSE IF Normalizar(texto) = ELIMINAR
       THEN /\ configs' = {c \in configs : c.pk # pk}
            /\ resp' = "Configuracion de timbrado eliminada exitosamente"
       ELSE /\ resp' = "Debe escribir ELIMINAR para confirmar"
            /\ UNCHANGED configs
    /\ UNCHANGED <<clientes, cliSeq, autenticado, hoy, cfgSeq, facturas, facSeq, detalles, session, pc, loc>>

(* factura_crear, split at its database accesses *)

\* factura_crear, POST: the timbrado gate, then form.is_valid() and formset.is_valid()
FacturaCrearValidar(r, u, datos) ==
    /\ pc[r] = "idle"
    /\ facSeq + FacturasEnCurso < MaxFacturas
    /\ LET config_timbrado == get_activo(configs)
           gate == TimbradoGate(config_timbrado, hoy)
       IN  IF gate # "ok"
           THEN /\ resp' = gate
                /\ UNCHANGED <<pc, loc>>
           ELSE IF FacturaForm_is_valid(datos, u, TRUE, clientes) /\ DetalleFacturaFormSet_is_valid(datos.lineas)
           THEN /\ loc' = [loc EXCEPT ![r] = [LocNulo EXCEPT
                               !.fdatos = [datos EXCEPT !.estado = clean_estado(datos.estado, u, TRUE)]]]
                /\ pc' = [pc EXCEPT ![r] = "fc_generar"]
                /\ UNCHANGED resp
           ELSE /\ resp' = "Por favor corrija los errores en el formulario"
                /\ UNCHANGED <<pc, loc>>
    /\ UNCHANGED <<clientes, cliSeq, autenticado, hoy, configs, cfgSeq, facturas, facSeq, detalles, session>>

\* factura_crear, inside transaction.atomic():
\* factura.numero_factura = Factura.generar_numero_factura()
FacturaCrearGenerar(r) ==
    /\ pc[r] = "fc_generar"
    /\ loc' = [loc EXCEPT ![r].numero = generar_numero_factura(configs, facturas)]
    /\ pc' = [pc EXCEPT ![r] = "fc_guardar"]
    /\ UNCHANGED <<clientes, cliSeq, autenticado, hoy, configs, cfgSeq, facturas, facSeq, detalles, session, resp>>

\* factura_crear: factura.save(), formset.save(), factura.calcular_totales() and the
\* commit; an IntegrityError on the INSERT rolls the transaction back
FacturaCrearGuardar(r) ==
    /\ pc[r] = "fc_guardar"
    /\ IF NumeroLibre(facturas, loc[r].numero)
       THEN LET factura == NuevaFactura(facSeq + 1, loc[r].numero, loc[r].fdatos.estado, loc[r].fdatos.cliente, hoy)
                nuevos == NuevosDetalles(facSeq + 1, loc[r].fdatos.lineas)
            IN  /\ detalles' = detalles \cup nuevos
                /\ facturas' = facturas \cup {calcular_totales(factura, detalles \cup nuevos)}
                /\ facSeq' = facSeq + 1
                /\ resp' = "Factura creada exitosamente"
       ELSE /\ resp' = "Error interno al crear la factura"
            /\ UNCHANGED <<facturas, facSeq, detalles>>
    /\ loc' = [loc EXCEPT ![r] = LocNulo]
    /\ pc' = [pc EXCEPT ![r] = "idle"]
    /\ UNCHANGED <<clientes, cliSeq, autenticado, hoy, configs, cfgSeq, session>>

\* factura_crear, POST, run from start to end with no other request between
FacturaCrear(u, datos) ==
    /\ facSeq + FacturasEnCurso < MaxFacturas
    /\ LET config_timbrado == get_activo(configs)
           gate == TimbradoGate(config_timbrado, hoy)
       IN  IF gate # "ok"
           THEN /\ resp' = gate
                /\ UNCHANGED <<facturas, facSeq, detalles>>
           ELSE IF FacturaForm_is_valid(datos, u, TRUE, clientes) /\ DetalleFacturaFormSet_is_valid(datos.lineas)
           THEN LET numero == generar_numero_factura(configs, facturas)
                    factura == NuevaFactura(facSeq + 1, numero, clean_estado(datos.estado, u, TRUE), datos.cliente, hoy)
                    nuevos == NuevosDetalles(facSeq + 1, datos.lineas)
                IN  IF NumeroLibre(facturas, numero)
                    THEN /\ detalles' = detalles \cup nuevos
                         /\ facturas' = facturas \cup {calcular_totales(factura, detalles \cup nuevos)}
                         /\ facSeq' = facSeq + 1
                         /\ resp' = "Factura creada exitosamente"
                    ELSE /\ resp' = "Error interno al crear la factura"
                         /\ UNCHANGED <<facturas, facSeq, detalles>>
           ELSE /\ resp' = "Por favor corrija los errores en el formulario"
                /\ UNCHANGED <<facturas, facSeq, detalles>>
    /\ UNCHANGED <<clientes, cliSeq, autenticado, hoy, configs, cfgSeq, session, pc, loc>>

(* the invoice lifecycle handlers *)

\* factura_editar: GET shows the form, POST saves the form and the formset
FacturaEditar(u, pk, post, datos) ==
    /\ IF ~Existe(facturas, pk, TRUE)
       THEN /\ resp' = "Factura no encontrada"
            /\ UNCHANGED <<facturas, detalles>>
       ELSE LET factura == Fila(facturas, pk)
            IN  IF ~puede_editarse(factura)
                THEN /\ resp' = "No se puede editar una factura pagada o anulada"
                     /\ UNCHANGED <<facturas, detalles>>
                ELSE IF ~post
                THEN /\ resp' = "ninguna"
                     /\ UNCHANGED <<facturas, detalles>>
                ELSE IF FacturaForm_is_valid(datos, u, FALSE, clientes) /\ FormSetEdicion_is_valid(detalles, pk, datos)
                THEN LET guardada == [factura EXCEPT !.estado = clean_estado(datos.estado, u, FALSE),
                                                 !.cliente = datos.cliente]
                         dets == FormSetEdicion_save(detalles, pk, datos)
                     IN  /\ detalles' = dets
                         /\ facturas' = GuardarFila(facturas, calcular_totales([guardada EXCEPT !.fecha_actualizacion = hoy], dets))
                         /\ resp' = "Factura actualizada exitosamente"
                ELSE /\ resp' = "Por favor corrija los errores en el formulario"
                     /\ UNCHANGED <<facturas, detalles>>
    /\ UNCHANGED <<clientes, cliSeq, autenticado, hoy, configs, cfgSeq, facSeq, session, pc, loc>>

\* factura_anular, GET: a new FacturaEliminarForm draws the operands a and b,
\* which the view stores in the session
FacturaAnularGet(u, pk, a, b) ==
    /\ IF ~Existe(facturas, pk, TRUE)
       THEN /\ resp' = "Factura no encontrada"
            /\ UNCHANGED session
       ELSE IF ~puede_anularse(Fila(facturas, pk))
       THEN /\ resp' = "Esta factura ya esta anulada"
            /\ UNCHANGED session
       ELSE /\ session' = [session EXCEPT ![u] = <<a, b>>]
            /\ resp' = "ninguna"
    /\ UNCHANGED <<clientes, cliSeq, autenticado, hoy, configs, cfgSeq, facturas, facSeq, detalles, pc, loc>>

\* factura_anular, POST: the answer is compared with the sum of the operands
\* kept in the session
FacturaAnularPost(u, pk, respuesta) ==
    /\ IF ~Existe(facturas, pk, TRUE)
       THEN /\ resp' = "Factura no encontrada"
            /\ UNCHANGED <<facturas, session>>
       ELSE LET factura == Fila(facturas, pk)
            IN  IF ~puede_anularse(factura)
                THEN /\ resp' = "Esta factura ya esta anulada"
                     /\ UNCHANGED <<facturas, session>>
                ELSE IF ~captcha_en_sesion(session[u])
                THEN /\ resp' = "Sesion expirada. Intente nuevamente"
                     /\ UNCHANGED <<facturas, session>>
                ELSE IF session[u] = <<>>
                THEN \* request.session['captcha_a'] raises KeyError, caught by the
                     \* handler's inner except
                     /\ resp' = "Error interno al anular la factura"
                     /\ UNCHANGED <<facturas, session>>
                ELSE IF FacturaEliminarForm_is_valid(respuesta, session[u][1], session[u][2])
                THEN /\ facturas' = GuardarConFecha(facturas, anular(factura), hoy)
                     /\ session' = SesionLimpia(session, u)
                     /\ resp' = "Factura anulada exitosamente"
                ELSE /\ resp' = "Captcha incorrecto. Intente nuevamente"
                     /\ UNCHANGED <<facturas, session>>
    /\ UNCHANGED <<clientes, cliSeq, autenticado, hoy, configs, cfgSeq, facSeq, detalles, pc, loc>>

\* factura_marcar_pagada
FacturaMarcarPagada(u, pk) ==
    /\ IF ~Existe(facturas, pk, FALSE)
       THEN /\ resp' = "404"
            /\ UNCHANGED facturas
       ELSE LET factura == Fila(facturas, pk)
            IN  IF factura.estado = "PAGADA"
                THEN /\ resp' = "La factura ya esta marcada como pagada"
                     /\ UNCHANGED facturas
                ELSE IF factura.estado = "ANULADA"
                THEN /\ resp' = "No se puede marcar como pagada una factura anulada"
                     /\ UNCHANGED facturas
                ELSE /\ facturas' = GuardarConFecha(facturas, marcar_pagada(factura), hoy)
                     /\ resp' = "Factura marcada como pagada"
    /\ UNCHANGED <<clientes, cliSeq, autenticado, hoy, configs, cfgSeq, facSeq, detalles, session, pc, loc>>

\* factura_añadir_timbrado: GET shows the form, POST records the timbrado
FacturaAnadirTimbrado(u, pk, post, datos) ==
    /\ IF ~es_staff_o_superuser(u)
       THEN /\ resp' = "redirect dashboard"
            /\ UNCHANGED facturas
       ELSE IF ~Existe(facturas, pk, TRUE)
       THEN /\ resp' = "Factura no encontrada"
            /\ UNCHANGED facturas
       ELSE LET factura == Fila(facturas, pk)
            IN  IF factura.estado = "ANULADA"
                THEN /\ resp' = "No se puede timbrar una factura anulada"
                     /\ UNCHANGED facturas
                ELSE IF ~post
                THEN /\ resp' = "ninguna"
                     /\ UNCHANGED facturas
                ELSE IF TimbradoForm_is_valid(datos)
                THEN /\ facturas' = GuardarConFecha(facturas, TimbrarFactura(factura, datos, u, hoy), hoy)
                     /\ resp' = "Timbrado anadido a factura"
                ELSE /\ resp' = "Corrija los errores en el formulario"
                     /\ UNCHANGED facturas
    /\ UNCHANGED <<clientes, cliSeq, autenticado, hoy, configs, cfgSeq, facSeq, detalles, session, pc, loc>>

(* the bulk actions of FacturaAdmin; the admin site admits staff users only *)

\* FacturaAdmin.marcar_como_pagada on the selected rows
AdminMarcarComoPagada(u, seleccion) ==
    /\ is_staff(u)
    /\ facturas' = ActualizarEstado(facturas, seleccion, {"PENDIENTE"}, "PAGADA")
    /\ resp' = ToString(Actualizadas(facturas, seleccion, {"PENDIENTE"})) \o " factura(s) marcada(s) como pagada(s)"
    /\ UNCHANGED <<clientes, cliSeq, autenticado, hoy, configs, cfgSeq, facSeq, detalles, session, pc, loc>>

\* FacturaAdmin.marcar_como_pendiente on the selected rows
AdminMarcarComoPendiente(u, seleccion) ==
    /\ is_staff(u)
    /\ facturas' = ActualizarEstado(facturas, seleccion, {"PAGADA"}, "PENDIENTE")
    /\ resp' = ToString(Actualizadas(facturas, seleccion, {"PAGADA"})) \o " factura(s) marcada(s) como pendiente(s)"
    /\ UNCHANGED <<clientes, cliSeq, autenticado, hoy, configs, cfgSeq, facSeq, detalles, session, pc, loc>>

\* FacturaAdmin.anular_facturas on the selected rows
AdminAnularFacturas(u, seleccion) ==
    /\ is_staff(u)
    /\ facturas' = ActualizarEstado(facturas, seleccion, Estados \ {"ANULADA"}, "ANULADA")
    /\ resp' = ToString(Actualizadas(facturas, seleccion, Estados \ {"ANULADA"})) \o " factura(s) anulada(s)"
    /\ UNCHANGED <<clientes, cliSeq, autenticado, hoy, configs, cfgSeq, facSeq, detalles, session, pc, loc>>

\* the change form of FacturaAdmin with its DetalleFacturaInline, submitted with
\* the invoice's own fields as shown: save_model() saves the invoice, then
\* save_related() saves the inline formset
AdminFacturaInline(u, pk, datos) ==
    /\ is_staff(u)
    /\ IF ~Existe(facturas, pk, FALSE)
       THEN /\ resp' = "404"
            /\ UNCHANGED <<facturas, detalles>>
       ELSE IF InlineFormSet_is_valid(detalles, pk, datos)
       THEN LET guardada == [Fila(facturas, pk) EXCEPT !.fecha_actualizacion = hoy]
            IN  /\ detalles' = FormSetEdicion_save(detalles, pk, datos)
                /\ facturas' = GuardarFila(facturas, InlineFormSet_totales(guardada, detalles, datos))
                /\ resp' = "The factura was changed successfully"
       ELSE /\ resp' = "Please correct the errors below"
            /\ UNCHANGED <<facturas, detalles>>
    /\ UNCHANGED <<clientes, cliSeq, autenticado, hoy, configs, cfgSeq, facSeq, session, pc, loc>>

(* Authentication *)

\* auth.User.username of the accounts
Username(u) ==
    IF u = "ana" THEN <<"a", "n", "a">>
    ELSE IF u = "admin" THEN <<"a", "d", "m", "i", "n">>
    ELSE <<"j", "e", "f", "e">>

\* the password of each account
Password(u) == IF u = "ana" THEN "pass123" ELSE IF u = "admin" THEN "admin123" ELSE "jefe123"

\* django.contrib.auth.authenticate with the ModelBackend: the account with that
\* username and password, or "nadie"
authenticate(username, password) ==
    IF \E u \in Users : Username(u) = username /\ Password(u) = password
    THEN CHOOSE u \in Users : Username(u) = username /\ Password(u) = password
    ELSE "nadie"

\* the values of the next parameter: absent, a path of this site, another host
Destinos == {"", "/facturas/", "//otro.example/"}

\* url_has_allowed_host_and_scheme(next_url, allowed_hosts={request.get_host()})
url_has_allowed_host_and_scheme(next_url) == next_url = "/facturas/"

\* where a completed login redirects to
DestinoLogin(next_url) ==
    IF next_url # "" /\ url_has_allowed_host_and_scheme(next_url) THEN next_url ELSE "dashboard"

\* login_usuario_view, from the browser n
LoginUsuario(n, post, username, password, next_url) ==
    /\ IF autenticado[n] # "nadie"
       THEN /\ resp' = "redirect dashboard"
            /\ UNCHANGED autenticado
       ELSE IF ~post
       THEN /\ resp' = "ninguna"
            /\ UNCHANGED autenticado
       ELSE IF Strip(username) = <<>> \/ password = ""
       THEN /\ resp' = "Usuario y contrasena son requeridos"
            /\ UNCHANGED autenticado
       ELSE LET user == authenticate(Strip(username), password)
            IN  IF user # "nadie"
                THEN /\ autenticado' = [autenticado EXCEPT ![n] = user]
                     /\ resp' = "Bienvenido " \o user \o "; redirect " \o DestinoLogin(next_url)
                ELSE /\ resp' = "Usuario o contrasena incorrectos"
                     /\ UNCHANGED autenticado
    /\ UNCHANGED <<clientes, cliSeq, hoy, configs, cfgSeq, facturas, facSeq, detalles, session, pc, loc>>

\* login_admin_view, from the browser n
LoginAdmin(n, post, username, password, next_url) ==
    /\ IF autenticado[n] # "nadie"
       THEN /\ resp' = "redirect dashboard"
            /\ UNCHANGED autenticado
       ELSE IF ~post
       THEN /\ resp' = "ninguna"
            /\ UNCHANGED autenticado
       ELSE IF Strip(username) = <<>> \/ password = ""
       THEN /\ resp' = "Usuario y contrasena son requeridos"
            /\ UNCHANGED autenticado
       ELSE LET user == authenticate(Strip(username), password)
            IN  IF user # "nadie"
                THEN /\ autenticado' = [autenticado EXCEPT ![n] = user]
                     /\ resp' = (IF is_staff(user) \/ is_superuser(user)
                                 THEN "Bienvenido Administrador " ELSE "Bienvenido ")
                                    \o user \o "; redirect " \o DestinoLogin(next_url)
                ELSE /\ resp' = "Usuario o contrasena incorrectos"
                     /\ UNCHANGED autenticado
    /\ UNCHANGED <<clientes, cliSeq, hoy, configs, cfgSeq, facturas, facSeq, detalles, session, pc, loc>>

\* logout_view, behind login_required
Logout(n) ==
    /\ IF autenticado[n] = "nadie"
       THEN /\ resp' = "redirect login"
            /\ UNCHANGED autenticado
       ELSE /\ autenticado' = [autenticado EXCEPT ![n] = "nadie"]
            /\ resp' = "Has cerrado sesion correctamente"
    /\ UNCHANGED <<clientes, cliSeq, hoy, configs, cfgSeq, facturas, facSeq, detalles, session, pc, loc>>

(* the customer handlers *)

\* cliente_crear, POST
ClienteCrear(u, datos) ==
    /\ cliSeq < MaxClientes
    /\ IF ClienteForm_is_valid(datos, 0, clientes)
       THEN /\ clientes' = clientes \cup {ClienteForm_save(datos, cliSeq + 1, clientes, hoy)}
            /\ cliSeq' = cliSeq + 1
            /\ resp' = "Cliente creado exitosamente"
       ELSE /\ resp' = "Por favor corrija los errores en el formulario"
            /\ UNCHANGED <<clientes, cliSeq>>
    /\ UNCHANGED <<autenticado, hoy, configs, cfgSeq, facturas, facSeq, detalles, session, pc, loc>>

\* cliente_editar: only an active customer is found; GET shows the form, POST
\* saves it
ClienteEditar(u, pk, post, datos) ==
    /\ IF ~Existe(clientes, pk, TRUE)
       THEN /\ resp' = "Cliente no encontrado"
            /\ UNCHANGED clientes
       ELSE IF ~post
       THEN /\ resp' = "ninguna"
            /\ UNCHANGED clientes
       ELSE IF ClienteForm_is_valid(datos, pk, clientes)
       THEN /\ clientes' = GuardarFila(clientes, ClienteForm_save(datos, pk, clientes, hoy))
            /\ resp' = "Cliente actualizado exitosamente"
       ELSE /\ resp' = "Por favor corrija los errores en el formulario"
            /\ UNCHANGED clientes
    /\ UNCHANGED <<cliSeq, autenticado, hoy, configs, cfgSeq, facturas, facSeq, detalles, session, pc, loc>>

\* cliente_eliminar: GET shows the confirmation page, POST deactivates the
\* customer unless active invoices refer to it
ClienteEliminar(u, pk, post) ==
    /\ IF ~Existe(clientes, pk, FALSE)
       THEN /\ resp' = "404"
            /\ UNCHANGED clientes
       ELSE LET cliente == Fila(clientes, pk)
                n == facturas_activas(facturas, pk)
            IN  IF ~post
                THEN /\ resp' = "ninguna"
                     /\ UNCHANGED clientes
                ELSE IF n > 0
                THEN /\ resp' = "No se puede eliminar el cliente porque tiene "
                                    \o ToString(n) \o " factura(s) asociada(s)"
                     /\ UNCHANGED clientes
                ELSE /\ clientes' = GuardarConFecha(clientes, desactivar(cliente), hoy)
                     /\ resp' = "Cliente eliminado exitosamente"
    /\ UNCHANGED <<cliSeq, autenticado, hoy, configs, cfgSeq, facturas, facSeq, detalles, session, pc, loc>>

\* the change list of ClienteAdmin with list_editable = ['activo']: the rows
\* whose box was changed are saved
AdminClienteActivo(u, pk, activo) ==
    /\ is_staff(u)
    /\ Existe(clientes, pk, FALSE)
    /\ Fila(clientes, pk).activo # activo
    /\ clientes' = GuardarConFecha(clientes, [Fila(clientes, pk) EXCEPT !.activo = activo], hoy)
    /\ resp' = "1 cliente was changed successfully"
    /\ UNCHANGED <<cliSeq, autenticado, hoy, configs, cfgSeq, facturas, facSeq, detalles, session, pc, loc>>

----------------------------------------------------------------------------
(* Specifications *)

Staff == {"admin", "jefe"}

\* two staff sessions working on the timbrado configuration at the same time
NextTimbrado ==
    \/ Tick
    \/ \E r \in Reqs, u \in Users : TimbradoConfigurarLeer(r, u)
    \/ \E r \in Reqs, datos \in TimbradoEntradas : TimbradoConfigurarValidar(r, datos)
    \/ \E r \in Reqs : TimbradoConfigurarGuardar(r)
    \/ \E u \in Users, pk \in 1..MaxConfigs, post \in BOOLEAN, texto \in Confirmaciones :
        TimbradoEliminar(u, pk, post, texto)

SpecTimbrado == Init /\ [][NextTimbrado]_vars

\* the submissions an administrator makes while invoices are being created
TimbradoEntradasCrear ==
    {d \in TimbradoEntradas :
        /\ d.confirmar_reemplazo
        /\ \/ d.establecimiento = <<"0", "0", "1">> /\ d.fecha_inicio = 0 /\ d.fecha_vencimiento = 1
           \/ d.establecimiento = <<"0", "0", "2">> /\ d.fecha_inicio = 1 /\ d.fecha_vencimiento = 2}

\* the invoice submissions of the numbering scenarios
FacturaEntradasCrear ==
    {d \in FacturaEntradas :
        /\ d.estado \in {"PENDIENTE", "ANULADA"}
        /\ Len(d.lineas) <= 1
        /\ d.cliente = 1}

\* two invoice creations in flight while the timbrado configuration is administered
NextCrear ==
    \/ Tick
    \/ \E datos \in TimbradoEntradasCrear : TimbradoConfigurar("admin", datos)
    \/ \E pk \in 1..MaxConfigs : TimbradoEliminar("admin", pk, TRUE, ELIMINAR)
    \/ \E r \in Reqs, datos \in FacturaEntradasCrear : FacturaCrearValidar(r, "ana", datos)
    \/ \E r \in Reqs : FacturaCrearGenerar(r)
    \/ \E r \in Reqs : FacturaCrearGuardar(r)

SpecCrear == Init /\ [][NextCrear]_vars

\* the users of the lifecycle scenarios: a plain user and a staff user
Usuarios == {"ana", "admin"}

\* the timbrado configuration under which the invoices are created
TimbradoEntradasVistas ==
    {d \in TimbradoEntradasCrear : d.establecimiento = <<"0", "0", "1">>}

\* the invoice submissions of the lifecycle scenarios
FacturaEntradasVistas ==
    {d \in FacturaEntradas :
        d.lineas = <<[cantidad |-> 1, precio_unitario |-> 5]>> /\ d.cliente = 1}

SinCambio == [orden |-> 0, cantidad |-> 0, precio_unitario |-> 0]

\* the submissions to factura_editar: the status, the rows marked for deletion,
\* a changed row and the added rows
EdicionEntradas ==
    [estado : Estados,
     borrar : {{}, {1}},
     cambio : {SinCambio, [orden |-> 1, cantidad |-> 2, precio_unitario |-> 100]},
     nuevas : {<<>>, <<[cantidad |-> 1, precio_unitario |-> 5]>>},
     cliente : 1..MaxClientes]

\* the edits of the lifecycle scenarios keep the rows as they are, or delete the
\* only row
EdicionEntradasVistas ==
    {d \in EdicionEntradas : d.cambio = SinCambio /\ d.nuevas = <<>> /\ d.cliente = 1}

\* the submissions to factura_añadir_timbrado
TimbradoFacturaEntradas ==
    {[timbrado |-> <<"1", "2", "3", "4", "-", "5", "6", "7", "8">>,
      timbrado_fecha |-> 0, timbrado_vencimiento |-> 1],
     [timbrado |-> <<"1", "2", "3">>, timbrado_fecha |-> Ninguna, timbrado_vencimiento |-> Ninguna],
     [timbrado |-> <<>>, timbrado_fecha |-> 1, timbrado_vencimiento |-> 1]}

\* what a GET carries: no form data
SinEdicion ==
    [estado |-> "PENDIENTE", borrar |-> {}, cambio |-> SinCambio, nuevas |-> <<>>, cliente |-> 1]

SinTimbrado == [timbrado |-> <<>>, timbrado_fecha |-> Ninguna, timbrado_vencimiento |-> Ninguna]

Operandos == 1..MaxOperando

\* the answers typed into the confirmation form: numbers, nothing, a letter
Respuestas == {Decimal(n) : n \in 0..(2 * MaxOperando + 1)} \cup {<<>>, <<"A">>}

PksVistas == 1..MaxFacturasVistas

\* the view handlers that act on an invoice, in any order
Vistas ==
    \/ \E u \in Usuarios, pk \in PksVistas : FacturaEditar(u, pk, FALSE, SinEdicion)
    \/ \E u \in Usuarios, pk \in PksVistas, datos \in EdicionEntradasVistas :
        FacturaEditar(u, pk, TRUE, datos)
    \/ \E pk \in PksVistas, a \in Operandos, b \in Operandos : FacturaAnularGet("ana", pk, a, b)
    \/ \E pk \in PksVistas, respuesta \in Respuestas : FacturaAnularPost("ana", pk, respuesta)
    \/ \E pk \in PksVistas : FacturaMarcarPagada("ana", pk)
    \/ \E u \in Usuarios, pk \in PksVistas : FacturaAnadirTimbrado(u, pk, FALSE, SinTimbrado)
    \/ \E pk \in PksVistas, datos \in TimbradoFacturaEntradas :
        FacturaAnadirTimbrado("admin", pk, TRUE, datos)

\* invoices are created under one timbrado configuration
Altas ==
    \/ \E datos \in TimbradoEntradasVistas : TimbradoConfigurar("admin", datos)
    \/ \E u \in Usuarios, datos \in FacturaEntradasVistas :
        /\ facSeq < MaxFacturasVistas
        /\ FacturaCrear(u, datos)

\* invoices are created and then handled through the views
NextVistas == Altas \/ Vistas

SpecVistas == Init /\ [][NextVistas]_vars

\* the selections of the change list: the admin site runs an action on at
\* least one selected row
Selecciones == (SUBSET PksVistas) \ {{}}

\* the bulk actions of the admin site on any selection of invoices
Admin ==
    \/ \E sel \in Selecciones : AdminMarcarComoPagada("admin", sel)
    \/ \E sel \in Selecciones : AdminMarcarComoPendiente("admin", sel)
    \/ \E sel \in Selecciones : AdminAnularFacturas("admin", sel)

\* invoices are handled through the views and through the admin site
NextAdmin == Altas \/ Vistas \/ Admin

SpecAdmin == Init /\ [][NextAdmin]_vars

\* invoices are created and handled through the bulk actions of the admin
\* site while the days pass
NextAcciones == Altas \/ Tick \/ Admin

SpecAcciones == Init /\ [][NextAcciones]_vars

\* the submissions of the registration scenarios: two valid timbrados, one
\* typed with a hyphen, and one that is too short
TimbradoFacturaEntradasRegistro ==
    {d \in TimbradoFacturaEntradas : d.timbrado # <<>>}
        \cup {[timbrado |-> <<"8", "7", "6", "5", "4", "3", "2", "1">>,
                timbrado_fecha |-> 1, timbrado_vencimiento |-> 2]}

\* the invoices of the registration scenarios
PksRegistro == 1..MaxFacturasRegistro

\* under the first timbrado configuration a user creates invoices, two staff
\* users register their timbrado and the admin site may void them, while the
\* days pass
NextRegistro ==
    \/ \E datos \in TimbradoEntradasVistas : configs = {} /\ TimbradoConfigurar("admin", datos)
    \/ \E datos \in FacturaEntradasVistas :
        /\ datos.estado = "PENDIENTE"
        /\ facSeq < MaxFacturasRegistro
        /\ FacturaCrear("ana", datos)
    \/ Tick
    \/ \E u \in Staff, pk \in PksRegistro, datos \in TimbradoFacturaEntradasRegistro :
        FacturaAnadirTimbrado(u, pk, TRUE, datos)
    \/ \E sel \in (SUBSET PksRegistro) \ {{}} : AdminAnularFacturas("admin", sel)

SpecRegistro == Init /\ [][NextRegistro]_vars

\* a user opens the void-confirmation pages of the invoices and answers them;
\* the form of the page of invoice pk happens to draw pk and pk, so that the
\* operands in the session tell which page stored them
NextCaptcha ==
    \/ Altas
    \/ \E pk \in PksVistas \cap Operandos : FacturaAnularGet("ana", pk, pk, pk)
    \/ \E pk \in PksVistas, respuesta \in Respuestas : FacturaAnularPost("ana", pk, respuesta)

SpecCaptcha == Init /\ [][NextCaptcha]_vars

\* invoices are created, paid through the view and voided through the admin
\* site while the days pass
NextPagada ==
    \/ Altas
    \/ Tick
    \/ \E u \in Usuarios, pk \in PksVistas : FacturaMarcarPagada(u, pk)
    \/ \E sel \in Selecciones : AdminAnularFacturas("admin", sel)

SpecPagada == Init /\ [][NextPagada]_vars

\* the submissions that change the lines of an invoice of customer 1
EdicionEntradasLineas == {d \in EdicionEntradas : d.cliente = 1 /\ d.estado = "PENDIENTE"}

\* the scenarios keep an invoice within MaxLineas lines
CabenLineas(pk, datos) ==
    Cardinality(DetallesDe(detalles, pk)) + Len(datos.nuevas) <= MaxLineas

\* invoices are created and their lines are changed through factura_editar and
\* through the inline of the admin change form
NextTotales ==
    \/ Altas
    \/ \E pk \in PksVistas, datos \in EdicionEntradasLineas :
        /\ CabenLineas(pk, datos)
        /\ FacturaEditar("ana", pk, TRUE, datos)
    \/ \E pk \in PksVistas, datos \in EdicionEntradasLineas :
        /\ CabenLineas(pk, datos)
        /\ AdminFacturaInline("admin", pk, datos)

SpecTotales == Init /\ [][NextTotales]_vars

\* the customer submissions of the scenarios
ClienteEntradasVistas ==
    {d \in ClienteEntradas :
        /\ d.nombre = "Beta"
        /\ d.ruc_ci \in {<<"8", "0", "0", "1", "2", "3", "-", "4">>, <<"9", "0", "0", "1", "2", "3", "-", "5">>}}

\* the invoice submissions of the customer scenarios: one line, any customer
FacturaEntradasClientes ==
    {d \in FacturaEntradas :
        d.lineas = <<[cantidad |-> 1, precio_unitario |-> 5]>> /\ d.estado = "PENDIENTE"}

PksClientes == 1..MaxClientes

\* customers are created, edited and deactivated while invoices are issued to them
NextClientes ==
    \/ Tick
    \/ \E datos \in TimbradoEntradasVistas : TimbradoConfigurar("admin", datos)
    \/ \E datos \in FacturaEntradasClientes : FacturaCrear("ana", datos)
    \/ \E datos \in ClienteEntradasVistas : ClienteCrear("ana", datos)
    \/ \E pk \in PksClientes : ClienteEditar("ana", pk, FALSE, [nombre |-> "Acme", ruc_ci |-> <<>>, activo |-> TRUE])
    \/ \E pk \in PksClientes, datos \in ClienteEntradasVistas : ClienteEditar("ana", pk, TRUE, datos)
    \/ \E pk \in PksClientes, post \in BOOLEAN : ClienteEliminar("ana", pk, post)
    \/ \E pk \in PksClientes, activo \in BOOLEAN : AdminClienteActivo("admin", pk, activo)

SpecClientes == Init /\ [][NextClientes]_vars

\* the usernames typed into the login forms: the accounts' names, one with
\* blanks around it, an unknown name, blanks only
UsernamesTecleados ==
    {Username(u) : u \in Users}
      \cup {<<" ", "a", "n", "a", " ">>, <<"e", "v", "a">>, <<" ">>}

\* the passwords typed into the login forms
PasswordsTecleados == {Password(u) : u \in Users} \cup {""}

\* two browsers log in and out through both login pages
NextLogin ==
    \/ \E n \in Navegadores : LoginUsuario(n, FALSE, <<>>, "", "")
    \/ \E n \in Navegadores, username \in UsernamesTecleados, password \in PasswordsTecleados,
          next_url \in Destinos : LoginUsuario(n, TRUE, username, password, next_url)
    \/ \E n \in Navegadores : LoginAdmin(n, FALSE, <<>>, "", "")
    \/ \E n \in Navegadores, username \in UsernamesTecleados, password \in PasswordsTecleados,
          next_url \in Destinos : LoginAdmin(n, TRUE, username, password, next_url)
    \/ \E n \in Navegadores : Logout(n)

SpecLogin == Init /\ [][NextLogin]_vars

\* a plain and a staff user call the three timbrado handlers while invoices are
\* created
NextPermisos ==
    \/ Altas
    \/ \E u \in Usuarios, datos \in TimbradoEntradasCrear : TimbradoConfigurar(u, datos)
    \/ \E u \in Usuarios, pk \in 1..MaxConfigs, post \in BOOLEAN, texto \in Confirmaciones :
        TimbradoEliminar(u, pk, post, texto)
    \/ \E u \in Usuarios, pk \in PksVistas : FacturaAnadirTimbrado(u, pk, FALSE, SinTimbrado)
    \/ \E u \in Usuarios, pk \in PksVistas, datos \in TimbradoFacturaEntradas :
        FacturaAnadirTimbrado(u, pk, TRUE, datos)

SpecPermisos == Init /\ [][NextPermisos]_vars

\* customers are created and edited with tax numbers typed in every format
NextRuc ==
    \/ \E datos \in ClienteEntradas : ClienteCrear("ana", datos)
    \/ \E pk \in PksClientes, datos \in ClienteEntradas : ClienteEditar("ana", pk, TRUE, datos)

SpecRuc == Init /\ [][NextRuc]_vars

----------------------------------------------------------------------------
(* Claims about the timbrado configuration *)

\* C1: in every reachable state at most one TimbradoConfig record has
\* activo = True, whatever the interleaving of timbrado_configurar and
\* timbrado_eliminar requests
C1_UnSoloActivo == Cardinality({c \in configs : c.activo}) <= 1

\* C2: a schema-valid submission to timbrado_configurar made while an active
\* configuration exists passes validation, and its transaction leaves the
\* previously active record inactive and a new record active, created by the
\* acting user
C2_ReemplazoExitoso ==
    [][\A r \in Reqs :
        /\ (/\ pc[r] = "tc_validar"
            /\ pc'[r] = "idle"
            /\ get_activo(configs).pk # 0)
           => resp' # "Ya existe una configuracion de timbrado activa"
        /\ (/\ pc[r] = "tc_guardar"
            /\ pc'[r] = "idle"
            /\ loc[r].config.pk # 0)
           => /\ \E c \in configs' : c.pk = loc[r].config.pk /\ ~c.activo
              /\ \E c \in configs' : /\ c.pk = cfgSeq'
                                     /\ c.activo
                                     /\ c.creado_por = loc[r].user
                                     /\ c.establecimiento = loc[r].tdatos.establecimiento
      ]_vars

----------------------------------------------------------------------------
(* Claims about invoice creation and numbering *)

\* an active configuration whose validity window contains the day
VentanaAbierta(cfgs, dia) ==
    \E c \in cfgs : c.activo /\ c.fecha_inicio <= dia /\ dia <= c.fecha_vencimiento

UnaLinea == <<[cantidad |-> 1, precio_unitario |-> 5]>>

\* C3: factura_crear persists nothing when, at the time of the request, no
\* configuration is active or today lies outside [fecha_inicio,
\* fecha_vencimiento]; on every day inside the window, both ends included, a
\* valid submission is taken on to the transaction
C3_GateTimbrado ==
    /\ [](\A r \in Reqs :
            (/\ VentanaAbierta(configs, hoy)
             /\ pc[r] = "idle"
             /\ facSeq + FacturasEnCurso < MaxFacturas)
            => ENABLED (/\ FacturaCrearValidar(r, "ana", [estado |-> "PENDIENTE", lineas |-> UnaLinea, cliente |-> 1])
                        /\ pc'[r] = "fc_generar"))
    /\ [][/\ \A r \in Reqs : (pc[r] = "idle" /\ pc'[r] # "idle") => VentanaAbierta(configs, hoy)
          /\ (facturas' # facturas \/ detalles' # detalles)
                => \E r \in Reqs : pc[r] = "fc_guardar" /\ pc'[r] = "idle"
          /\ ~VentanaAbierta(configs, hoy)
                => \A r \in Reqs, datos \in FacturaEntradas :
                      FacturaCrearValidar(r, "ana", datos)
                      => (pc' = pc /\ facturas' = facturas /\ detalles' = detalles /\ resp' # "ninguna")
         ]_vars

\* the gate let a request through on the last day of the window
C3_Witness ==
    \E r \in Reqs, c \in configs :
        c.activo /\ hoy = c.fecha_vencimiento /\ pc[r] = "fc_generar"

\* the trailing 8-digit counter of a timbrado-format number
ContadorDe(numero) == ParseInt(SubSeq(numero, Len(numero) - 7, Len(numero)))

Maximo(S) == CHOOSE x \in S : \A y \in S : y <= x

\* the counters of the persisted invoices whose number starts with the prefix
Contadores(facts, prefix) ==
    {ContadorDe(f.numero_factura) : f \in {g \in facts : StartsWith(g.numero_factura, prefix)}}

\* C4: with an active configuration (E, P) the generated number is 'E-P-' and an
\* 8-digit counter: 1 when no invoice has that prefix, else the largest counter
\* under that prefix plus one; the counters persisted under one prefix are 1..k
C4_NumeroTimbrado ==
    /\ [][\A r \in Reqs :
            (/\ pc[r] = "fc_generar"
             /\ pc'[r] = "fc_guardar"
             /\ get_activo(configs).pk # 0)
            => LET numero == loc'[r].numero
                   prefix == get_activo(configs).establecimiento \o <<"-">>
                                \o get_activo(configs).punto_expedicion \o <<"-">>
                   previos == Contadores(facturas, prefix)
               IN  /\ Len(numero) = Len(prefix) + 8
                   /\ SubSeq(numero, 1, Len(prefix)) = prefix
                   /\ \A i \in Len(prefix) + 1 .. Len(numero) : EsDigito(numero[i])
                   /\ ContadorDe(numero) = IF previos = {} THEN 1 ELSE Maximo(previos) + 1
         ]_vars
    /\ [](\A f \in facturas :
            Len(f.numero_factura) = 16
            => LET cs == Contadores(facturas, SubSeq(f.numero_factura, 1, 8))
               IN  cs = 1..Cardinality(cs))

\* under a new prefix the counter restarted at 1 while the invoice numbered 1
\* under another prefix is stored
C4_Witness ==
    \E r \in Reqs, f \in facturas :
        /\ pc[r] = "fc_guardar"
        /\ Len(loc[r].numero) = 16
        /\ ContadorDe(loc[r].numero) = 1
        /\ Len(f.numero_factura) = 16
        /\ ContadorDe(f.numero_factura) = 1
        /\ ~StartsWith(f.numero_factura, SubSeq(loc[r].numero, 1, 8))

\* the invoice numbers of the FAC-XXXXXX format
NumerosFAC(facts) ==
    {f.numero_factura : f \in {g \in facts : Len(g.numero_factura) = 10 /\ StartsWith(g.numero_factura, FAC)}}

\* C5: with no active configuration the generated number is 'FAC-' and a
\* 6-digit number: 1000 when no invoice has a FAC-XXXXXX number (also when the
\* only invoices carry EEE-PPP-NNNNNNNN numbers), else the largest one plus one
C5_NumeroLegacy ==
    [][\A r \in Reqs :
        (/\ pc[r] = "fc_generar"
         /\ pc'[r] = "fc_guardar"
         /\ get_activo(configs).pk = 0)
        => LET numero == loc'[r].numero
               previos == {ParseInt(SubSeq(n, 5, 10)) : n \in NumerosFAC(facturas)}
           IN  /\ Len(numero) = 10
               /\ SubSeq(numero, 1, 4) = FAC
               /\ ParseInt(SubSeq(numero, 5, 10)) =
                    IF previos = {} THEN 1000 ELSE Maximo(previos) + 1
      ]_vars

\* C6: no two persisted invoices share a numero_factura; a request whose
\* generated number was taken meanwhile is rejected at the INSERT and persists
\* neither an invoice nor a line item
C6_NumeroUnico ==
    /\ [](\A f, g \in facturas : f.pk # g.pk => f.numero_factura # g.numero_factura)
    /\ [][\A r \in Reqs :
            (/\ pc[r] = "fc_guardar"
             /\ pc'[r] = "idle"
             /\ \E f \in facturas : f.numero_factura = loc[r].numero)
            => /\ facturas' = facturas
               /\ detalles' = detalles
               /\ resp' = "Error interno al crear la factura"
         ]_vars

\* two requests read the same maximum and the second INSERT was rejected
C6_Witness ==
    /\ resp = "Error interno al crear la factura"
    /\ \A r \in Reqs : pc[r] = "idle"
    /\ Cardinality(facturas) = 1


----------------------------------------------------------------------------
(* Claims about the invoice lifecycle *)

Permitidas ==
    {<<"PENDIENTE", "PAGADA">>, <<"PENDIENTE", "ANULADA">>, <<"PAGADA", "ANULADA">>}

\* C7: under any sequence of factura_editar, factura_anular, factura_marcar_pagada
\* and factura_añadir_timbrado requests an existing invoice stays in the table and
\* its status either stays or moves along PENDIENTE->PAGADA, PENDIENTE->ANULADA or
\* PAGADA->ANULADA; so PAGADA never returns to PENDIENTE and ANULADA is final
C7_TransicionesEstado ==
    [][\A f \in facturas : \E g \in facturas' :
          /\ g.pk = f.pk
          /\ g.estado = f.estado \/ <<f.estado, g.estado>> \in Permitidas]_vars

\* an edit was refused on a paid invoice while another invoice is already void
C7_Witness ==
    /\ resp = "No se puede editar una factura pagada o anulada"
    /\ \E f \in facturas : f.estado = "PAGADA" /\ f.timbrado # <<>>
    /\ \E g \in facturas : g.estado = "ANULADA"

\* the POST of u to factura_anular for pk with this answer solves the challenge
\* kept in u's session
CaptchaResuelto(u, respuesta) ==
    /\ session[u] # <<>>
    /\ EsEntero(respuesta)
    /\ ParseInt(respuesta) = session[u][1] + session[u][2]

\* the step voids invoice pk through factura_anular with a solved challenge
AnuladaConCaptcha(pk) ==
    \E u \in Usuarios, respuesta \in Respuestas :
        CaptchaResuelto(u, respuesta) /\ FacturaAnularPost(u, pk, respuesta)

\* the invoices whose status the step turns into ANULADA
RecienAnuladas ==
    {f \in facturas : f.estado # "ANULADA" /\ \E g \in facturas' : g.pk = f.pk /\ g.estado = "ANULADA"}

C9_AnularConCaptcha ==
    \A u \in Usuarios, pk \in PksVistas, respuesta \in Respuestas :
        /\ (/\ Existe(facturas, pk, TRUE)
            /\ puede_anularse(Fila(facturas, pk))
            /\ CaptchaResuelto(u, respuesta))
              => ~ENABLED (/\ FacturaAnularPost(u, pk, respuesta)
                           /\ ~(/\ Fila(facturas', pk) = [Fila(facturas, pk) EXCEPT !.estado = "ANULADA",
                                                                            !.fecha_actualizacion = hoy]
                                /\ session'[u] = <<>>
                                /\ resp' = "Factura anulada exitosamente"))
        /\ session[u] = <<>>
              => ~ENABLED (FacturaAnularPost(u, pk, respuesta) /\ facturas' # facturas)

\* a paid invoice has just been voided by the user whose session held 2 + 1
C9_Witness ==
    /\ resp = "Factura anulada exitosamente"
    /\ session["ana"] = <<>>
    /\ \E f \in facturas : f.estado = "ANULADA" /\ f.timbrado # <<>>
    /\ \E g \in facturas : g.estado = "PENDIENTE"

\* C10: a POST to factura_anular for an active invoice that is not ANULADA, from
\* a session that holds operands, with an answer that is not their sum, can only
\* end with every invoice, every invoice line and every session as they were and
\* the captcha reported as incorrect
C10_CaptchaIncorrecto ==
    \A u \in Usuarios, pk \in PksVistas, respuesta \in Respuestas :
        (/\ Existe(facturas, pk, TRUE)
         /\ puede_anularse(Fila(facturas, pk))
         /\ session[u] # <<>>
         /\ ~CaptchaResuelto(u, respuesta))
           => ~ENABLED (/\ FacturaAnularPost(u, pk, respuesta)
                        /\ ~(/\ facturas' = facturas
                             /\ detalles' = detalles
                             /\ session' = session
                             /\ resp' = "Captcha incorrecto. Intente nuevamente"))

\* a wrong answer was reported while a paid invoice and a pending one exist
C10_Witness ==
    /\ resp = "Captcha incorrecto. Intente nuevamente"
    /\ session["ana"] # <<>>
    /\ \E f \in facturas : f.estado = "PAGADA"
    /\ \E g \in facturas : g.estado = "PENDIENTE"
    /\ ~\E h \in facturas : h.estado = "ANULADA"


----------------------------------------------------------------------------
(* Claims about refused requests *)

\* C11: a GET or a POST to factura_anular for an active invoice that is already
\* ANULADA can only end with every invoice and every session as they were, so
\* with no challenge stored, and with the redirect that reports the invoice as
\* already void
C11_YaAnulada ==
    \A u \in Usuarios, pk \in PksVistas :
        (Existe(facturas, pk, TRUE) /\ Fila(facturas, pk).estado = "ANULADA")
          => /\ \A a \in Operandos, b \in Operandos :
                  ~ENABLED (/\ FacturaAnularGet(u, pk, a, b)
                            /\ ~(/\ session' = session
                                 /\ resp' = "Esta factura ya esta anulada"))
             /\ \A respuesta \in Respuestas :
                  ~ENABLED (/\ FacturaAnularPost(u, pk, respuesta)
                            /\ ~(/\ facturas' = facturas
                                 /\ session' = session
                                 /\ resp' = "Esta factura ya esta anulada"))

\* a request for a void invoice was refused while the session holds no challenge
C11_Witness ==
    /\ resp = "Esta factura ya esta anulada"
    /\ session["ana"] = <<>>
    /\ \E f \in facturas : f.estado = "ANULADA"
    /\ ~\E g \in facturas : g.estado # "ANULADA"

\* C12: a POST to factura_anular for an active invoice that is not ANULADA, from
\* a session that holds no operands, can only end with every invoice and every
\* session as they were and the session-expired error with its redirect to the
\* void page, whatever the answer
C12_SesionExpirada ==
    \A u \in Usuarios, pk \in PksVistas, respuesta \in Respuestas :
        (/\ Existe(facturas, pk, TRUE)
         /\ Fila(facturas, pk).estado # "ANULADA"
         /\ session[u] = <<>>)
          => ~ENABLED (/\ FacturaAnularPost(u, pk, respuesta)
                       /\ ~(/\ facturas' = facturas
                            /\ session' = session
                            /\ resp' = "Sesion expirada. Intente nuevamente"))

\* the challenge was consumed by a void and a POST for another invoice was
\* answered with the session-expired error
C12_Witness ==
    /\ resp = "Sesion expirada. Intente nuevamente"
    /\ session["ana"] = <<>>
    /\ \E f \in facturas : f.estado = "ANULADA"
    /\ \E g \in facturas : g.estado = "PAGADA"

\* C13: a GET or a POST to factura_editar for an active invoice that is PAGADA
\* or ANULADA can only end with every invoice and every invoice line as they
\* were and the error that redirects to the detail page, whatever the
\* submission; so the handler changes an invoice or its lines only while the
\* invoice is PENDIENTE
C13_EditarSoloPendiente ==
    \A pk \in PksVistas :
        (Existe(facturas, pk, TRUE) /\ Fila(facturas, pk).estado # "PENDIENTE")
          => \A u \in Usuarios :
                /\ ~ENABLED (/\ FacturaEditar(u, pk, FALSE, SinEdicion)
                             /\ ~(/\ facturas' = facturas
                                  /\ detalles' = detalles
                                  /\ resp' = "No se puede editar una factura pagada o anulada"))
                /\ \A datos \in EdicionEntradas :
                      ~ENABLED (/\ FacturaEditar(u, pk, TRUE, datos)
                                /\ ~(/\ facturas' = facturas
                                     /\ detalles' = detalles
                                     /\ resp' = "No se puede editar una factura pagada o anulada"))

\* an edit of a void invoice was refused after an edit of a pending one went through
C13_Witness ==
    /\ resp = "No se puede editar una factura pagada o anulada"
    /\ \E f \in facturas : f.estado = "ANULADA" /\ f.timbrado = <<>>
    /\ \E g \in facturas : g.estado = "PENDIENTE"


----------------------------------------------------------------------------
(* Claims about factura_marcar_pagada *)

\* the outcome of factura_marcar_pagada on a step, with the row a PENDIENTE
\* invoice is replaced by
MarcarPagadaResultado(pagada(_)) ==
    \A u \in Usuarios, pk \in PksVistas :
        (FacturaMarcarPagada(u, pk) /\ Existe(facturas, pk, FALSE))
          => LET f == Fila(facturas, pk)
             IN  /\ detalles' = detalles
                 /\ f.estado = "PENDIENTE"
                      => /\ facturas' = (facturas \ {f}) \cup {pagada(f)}
                         /\ resp' = "Factura marcada como pagada"
                 /\ f.estado = "PAGADA"
                      => /\ facturas' = facturas
                         /\ resp' = "La factura ya esta marcada como pagada"
                 /\ f.estado = "ANULADA"
                      => /\ facturas' = facturas
                         /\ resp' = "No se puede marcar como pagada una factura anulada"

SoloEstado(f) == [f EXCEPT !.estado = "PAGADA"]

EstadoYFecha(f) == [f EXCEPT !.estado = "PAGADA", !.fecha_actualizacion = hoy]

\* C14 as stated: factura_marcar_pagada turns PENDIENTE into PAGADA and changes
\* no other field of the invoice, leaves PAGADA and ANULADA invoices as they are
\* with their messages, and changes nothing when applied again
C14_SoloElEstado ==
    /\ [][MarcarPagadaResultado(SoloEstado)]_vars
    /\ [](\A u \in Usuarios, pk \in PksVistas :
            (Existe(facturas, pk, FALSE) /\ Fila(facturas, pk).estado # "PENDIENTE")
              => ~ENABLED (FacturaMarcarPagada(u, pk) /\ facturas' # facturas))

\* C14 (amended): factura_marcar_pagada turns PENDIENTE into PAGADA and with it
\* sets the invoice's fecha_actualizacion to the time of the request, changing
\* no other field; it leaves PAGADA and ANULADA invoices as they are with their
\* messages, so applied again it changes nothing
C14_EstadoYFechaActualizacion ==
    /\ [][MarcarPagadaResultado(EstadoYFecha)]_vars
    /\ [](\A u \in Usuarios, pk \in PksVistas :
            (Existe(facturas, pk, FALSE) /\ Fila(facturas, pk).estado \in {"PAGADA", "ANULADA"})
              => ~ENABLED (FacturaMarcarPagada(u, pk) /\ facturas' # facturas))

\* an invoice created on an earlier day has just been marked as paid
C14_Witness ==
    /\ resp = "Factura marcada como pagada"
    /\ hoy > 0
    /\ \E f \in facturas : f.estado = "PAGADA" /\ f.fecha_actualizacion = hoy
    /\ \E g \in facturas : g.estado = "ANULADA"


----------------------------------------------------------------------------
(* Claims about the stored totals *)

\* the stored subtotal of every invoice is the sum of its lines' subtotals
SubtotalEsSuma ==
    \A f \in facturas : f.subtotal = SumaSubtotales(DetallesDe(detalles, f.pk))

\* the stored iva of every invoice is IVA_PERCENTAGE per cent of its subtotal
IvaEsPorcentaje ==
    \A f \in facturas : f.iva * 100 = f.subtotal * IVA_PERCENTAGE

\* the stored total of every invoice is its subtotal plus its iva
TotalEsSuma ==
    \A f \in facturas : f.total = f.subtotal + f.iva

\* C15: after every completed operation that adds, changes or removes a line
\* (creation, editing with deletions, the admin inline) every stored invoice has
\* subtotal = sum of its lines' subtotals, iva = subtotal * 10 / 100 and
\* total = subtotal + iva
C15_TotalesCoherentes == SubtotalEsSuma /\ IvaEsPorcentaje /\ TotalEsSuma


----------------------------------------------------------------------------
(* Claims about the status at creation *)

\* C16: factura_crear, by a plain or a staff user and whatever status the
\* submission carries, can never end with a new invoice stored as ANULADA, and
\* every invoice that appears in the table is PENDIENTE or PAGADA at that moment
C16_NuncaCreadaAnulada ==
    /\ [][\A u \in Usuarios, datos \in FacturaEntradas :
            (facSeq' # facSeq /\ FacturaCrear(u, datos))
              => Fila(facturas', facSeq').estado \in {"PENDIENTE", "PAGADA"}]_vars
    /\ [][\A f \in facturas' :
            (~\E g \in facturas : g.pk = f.pk) => f.estado \in {"PENDIENTE", "PAGADA"}]_vars

\* the last of the invoices has just been created, as PAGADA
C16_Witness ==
    /\ resp = "Factura creada exitosamente"
    /\ facSeq = MaxFacturasVistas
    /\ \E f \in facturas : f.pk = facSeq /\ f.estado = "PAGADA" /\ f.total > 0


----------------------------------------------------------------------------
(* Claims about customers *)

\* the active invoices that refer to a customer
ActivasDe(pk) == {f \in facturas : f.cliente = pk /\ f.activo}

\* C17: no step clears the active flag of a customer that owns an active
\* invoice, so in every reachable state no inactive customer owns an active
\* invoice
C17_InactivoSinFacturasActivas ==
    /\ [][\A c \in clientes :
            (c.activo /\ ActivasDe(c.pk) # {})
              => \A d \in clientes' : d.pk = c.pk => d.activo]_vars
    /\ [](\A c \in clientes : ~c.activo => ActivasDe(c.pk) = {})

\* the outcome of every cliente_eliminar request that can be made in the current
\* state, with the row a customer without active invoices is replaced by
EliminarResultado(desactivado(_)) ==
    \A u \in Usuarios, pk \in PksClientes :
        Existe(clientes, pk, FALSE)
          => LET c == Fila(clientes, pk)
                 n == Cardinality(ActivasDe(pk))
             IN  /\ ~ENABLED (/\ ClienteEliminar(u, pk, FALSE)
                              /\ ~(clientes' = clientes /\ facturas' = facturas /\ detalles' = detalles))
                 /\ n > 0
                      => ~ENABLED (/\ ClienteEliminar(u, pk, TRUE)
                                   /\ ~(/\ clientes' = clientes
                                        /\ facturas' = facturas
                                        /\ detalles' = detalles
                                        /\ resp' = "No se puede eliminar el cliente porque tiene "
                                                      \o ToString(n) \o " factura(s) asociada(s)"))
                 /\ n = 0
                      => ~ENABLED (/\ ClienteEliminar(u, pk, TRUE)
                                   /\ ~(/\ clientes' = (clientes \ {c}) \cup {desactivado(c)}
                                        /\ facturas' = facturas
                                        /\ detalles' = detalles
                                        /\ resp' = "Cliente eliminado exitosamente"))

SoloActivo(c) == [c EXCEPT !.activo = FALSE]

ActivoYFecha(c) == [c EXCEPT !.activo = FALSE, !.fecha_actualizacion = hoy]

\* C18 as stated: cliente_eliminar removes no customer and touches no invoice; a
\* GET changes nothing; a POST for a customer with active invoices changes
\* nothing and reports their count; a POST for a customer without active
\* invoices changes only that customer's active flag, to False
C18_SoloElActivo == EliminarResultado(SoloActivo)

\* C18 (amended): as above, except that the POST for a customer without active
\* invoices changes that customer's active flag, to False, and its
\* fecha_actualizacion, to the time of the request, and nothing else
C18_ActivoYFechaActualizacion == EliminarResultado(ActivoYFecha)

\* a customer has been deactivated on a later day than its last change, while
\* another customer owns an invoice
C18_Witness ==
    /\ resp = "Cliente eliminado exitosamente"
    /\ \E c \in clientes : ~c.activo /\ c.fecha_actualizacion = hoy /\ hoy > 0
    /\ \E f \in facturas : \E d \in clientes : d.pk = f.cliente /\ d.activo


----------------------------------------------------------------------------
(* Claims about the login pages *)

\* C19: from a browser that is not logged in, a POST of a staff account's valid
\* credentials to login_usuario_view can only end with the browser still not
\* logged in and a redirect to the admin login page, and a POST of a non-staff
\* account's valid credentials, with no next parameter, can only end with the
\* browser logged in as that account and a redirect to the dashboard
C19_StaffRedirigidoAlLoginAdmin ==
    \A n \in Navegadores, u \in Users :
        autenticado[n] = "nadie"
          => IF is_staff(u) \/ is_superuser(u)
             THEN ~ENABLED (/\ LoginUsuario(n, TRUE, Username(u), Password(u), "")
                            /\ ~(/\ autenticado' = autenticado
                                 /\ resp' = "redirect login_admin"))
             ELSE ~ENABLED (/\ LoginUsuario(n, TRUE, Username(u), Password(u), "")
                            /\ ~(/\ autenticado' = [autenticado EXCEPT ![n] = u]
                                 /\ resp' = "Bienvenido " \o u \o "; redirect dashboard"))

\* C20: from a browser that is not logged in, a POST of a non-staff account's
\* valid credentials to login_admin_view can only end with the browser still not
\* logged in and a redirect to the ordinary login page with 'Acceso denegado',
\* and a POST of a staff account's valid credentials, with no next parameter,
\* can only end with the browser logged in as that account and a redirect to
\* the dashboard
C20_NoStaffDenegado ==
    \A n \in Navegadores, u \in Users :
        autenticado[n] = "nadie"
          => IF is_staff(u) \/ is_superuser(u)
             THEN ~ENABLED (/\ LoginAdmin(n, TRUE, Username(u), Password(u), "")
                            /\ ~(/\ autenticado' = [autenticado EXCEPT ![n] = u]
                                 /\ resp' = "Bienvenido Administrador " \o u \o "; redirect dashboard"))
             ELSE ~ENABLED (/\ LoginAdmin(n, TRUE, Username(u), Password(u), "")
                            /\ ~(/\ autenticado' = autenticado
                                 /\ resp' = "Acceso denegado; redirect login"))


----------------------------------------------------------------------------
(* Claims about the timbrado handlers *)

NoStaff == {u \in Usuarios : ~(is_staff(u) \/ is_superuser(u))}

\* C21: every request to timbrado_configurar, timbrado_eliminar or
\* factura_añadir_timbrado by a user who is neither staff nor superuser can only
\* end with the redirect to the dashboard, every TimbradoConfig record and every
\* invoice as they were; and every step that changes the TimbradoConfig table is
\* a request of a staff or superuser account
C21_SoloStaff ==
    /\ [](\A u \in NoStaff :
            /\ \A datos \in TimbradoEntradas :
                  ~ENABLED (/\ TimbradoConfigurar(u, datos)
                            /\ ~(/\ configs' = configs
                                 /\ facturas' = facturas
                                 /\ resp' = "redirect dashboard"))
            /\ \A pk \in 1..MaxConfigs, post \in BOOLEAN, texto \in Confirmaciones :
                  ~ENABLED (/\ TimbradoEliminar(u, pk, post, texto)
                            /\ ~(/\ configs' = configs
                                 /\ facturas' = facturas
                                 /\ resp' = "redirect dashboard"))
            /\ \A pk \in PksVistas, post \in BOOLEAN, datos \in TimbradoFacturaEntradas :
                  ~ENABLED (/\ FacturaAnadirTimbrado(u, pk, post, datos)
                            /\ ~(/\ configs' = configs
                                 /\ facturas' = facturas
                                 /\ resp' = "redirect dashboard")))
    /\ [][configs' # configs
            => \E u \in Usuarios \ NoStaff :
                  \/ \E datos \in TimbradoEntradas : TimbradoConfigurar(u, datos)
                  \/ \E pk \in 1..MaxConfigs, texto \in Confirmaciones :
                        TimbradoEliminar(u, pk, TRUE, texto)]_vars

\* a request was sent back to the dashboard while a configuration and a stamped
\* invoice exist
C21_Witness ==
    /\ resp = "redirect dashboard"
    /\ \E c \in configs : c.activo
    /\ \E f \in facturas : f.timbrado # <<>> /\ f.timbrado_por = "admin"


\* the confirmation texts that, trimmed and upper-cased, read ELIMINAR
ConfirmacionesValidas ==
    {ELIMINAR, <<" ", "e", "l", "i", "m", "i", "n", "a", "r", " ">>}

\* C22: for a staff user and an existing TimbradoConfig record, timbrado_eliminar
\* deletes that record, and only it, exactly when the request is a POST whose
\* confirmation text, trimmed and upper-cased, is ELIMINAR; a GET changes no
\* record, a POST with another text changes no record and reports the error;
\* none of them changes an invoice or an invoice line
C22_EliminarConConfirmacion ==
    \A u \in Usuarios \ NoStaff, pk \in 1..MaxConfigs :
        (\E c \in configs : c.pk = pk)
          => /\ \A texto \in Confirmaciones :
                  ~ENABLED (/\ TimbradoEliminar(u, pk, FALSE, texto)
                            /\ ~(/\ configs' = configs
                                 /\ facturas' = facturas
                                 /\ detalles' = detalles))
             /\ \A texto \in ConfirmacionesValidas :
                  ~ENABLED (/\ TimbradoEliminar(u, pk, TRUE, texto)
                            /\ ~(/\ configs' = {c \in configs : c.pk # pk}
                                 /\ facturas' = facturas
                                 /\ detalles' = detalles
                                 /\ resp' = "Configuracion de timbrado eliminada exitosamente"))
             /\ \A texto \in Confirmaciones \ ConfirmacionesValidas :
                  ~ENABLED (/\ TimbradoEliminar(u, pk, TRUE, texto)
                            /\ ~(/\ configs' = configs
                                 /\ facturas' = facturas
                                 /\ detalles' = detalles
                                 /\ resp' = "Debe escribir ELIMINAR para confirmar"))

\* the only configuration has been deleted while an invoice numbered under it
\* is stored
C22_Witness ==
    /\ resp = "Configuracion de timbrado eliminada exitosamente"
    /\ configs = {}
    /\ \E f \in facturas : Len(f.numero_factura) = 16


----------------------------------------------------------------------------
(* Claims about the tax number of customers *)

\* the customers other than pk whose number, without separators, is that of ruc_ci
MismoRuc(ruc_ci, pk) ==
    {c \in clientes : c.pk # pk /\ SinSeparadores(c.ruc_ci) = SinSeparadores(ruc_ci)}

\* C23: no two customers hold the same ruc_ci once blanks and hyphens are
\* removed; a cliente_crear or cliente_editar submission whose number, without
\* separators, is that of another customer can only be rejected, storing
\* nothing; and a cliente_editar submission that keeps the customer's own
\* number, however typed, is accepted
C23_RucUnico ==
    /\ \A c \in clientes : MismoRuc(c.ruc_ci, c.pk) = {}
    /\ \A datos \in ClienteEntradas :
          MismoRuc(datos.ruc_ci, 0) # {}
            => ~ENABLED (/\ ClienteCrear("ana", datos)
                         /\ ~(/\ clientes' = clientes
                              /\ resp' = "Por favor corrija los errores en el formulario"))
    /\ \A pk \in PksClientes, datos \in ClienteEntradas :
          Existe(clientes, pk, TRUE)
            => /\ MismoRuc(datos.ruc_ci, pk) # {}
                    => ~ENABLED (/\ ClienteEditar("ana", pk, TRUE, datos)
                                 /\ ~(/\ clientes' = clientes
                                      /\ resp' = "Por favor corrija los errores en el formulario"))
               /\ SinSeparadores(datos.ruc_ci) = SinSeparadores(Fila(clientes, pk).ruc_ci)
                    => ~ENABLED (/\ ClienteEditar("ana", pk, TRUE, datos)
                                 /\ ~(resp' = "Cliente actualizado exitosamente"))

\* a submission was rejected while two customers with different numbers exist,
\* the first of them saved again under another name
C23_Witness ==
    /\ resp = "Por favor corrija los errores en el formulario"
    /\ Cardinality(clientes) = 2
    /\ \E c \in clientes : c.pk = 1 /\ c.nombre = "Beta" /\ c.activo
    /\ \E d \in clientes : d.pk = 2 /\ d.activo

----------------------------------------------------------------------------
(* Claims about the bulk actions of the admin site *)

\* the stored invoices after an action that moves exactly the selected rows
\* in one of the states desde to hasta, every other field kept
AccionResultado(seleccion, desde, hasta) ==
    /\ {f.pk : f \in facturas'} = {f.pk : f \in facturas}
    /\ Cardinality(facturas') = Cardinality(facturas)
    /\ \A f \in facturas :
          IF f.pk \in seleccion /\ f.estado \in desde
          THEN [f EXCEPT !.estado = hasta] \in facturas'
          ELSE f \in facturas'
    /\ UNCHANGED <<detalles, clientes, configs>>

\* the count an action reports when it changed the selected rows in desde
Cambiadas(seleccion, desde) ==
    ToString(Cardinality({pk \in seleccion : \E f \in facturas : f.pk = pk /\ f.estado \in desde}))

\* C24: marcar_como_pagada changes exactly the selected PENDIENTE invoices to
\* PAGADA, marcar_como_pendiente exactly the selected PAGADA invoices to
\* PENDIENTE and anular_facturas exactly the selected invoices that are not
\* ANULADA to ANULADA; each leaves the unselected invoices and every other
\* field as they were and reports the number of invoices it changed
C24_AccionesExactas ==
    \A sel \in Selecciones :
        /\ ~ENABLED (/\ AdminMarcarComoPagada("admin", sel)
                     /\ ~(/\ AccionResultado(sel, {"PENDIENTE"}, "PAGADA")
                          /\ resp' = Cambiadas(sel, {"PENDIENTE"}) \o " factura(s) marcada(s) como pagada(s)"))
        /\ ~ENABLED (/\ AdminMarcarComoPendiente("admin", sel)
                     /\ ~(/\ AccionResultado(sel, {"PAGADA"}, "PENDIENTE")
                          /\ resp' = Cambiadas(sel, {"PAGADA"}) \o " factura(s) marcada(s) como pendiente(s)"))
        /\ ~ENABLED (/\ AdminAnularFacturas("admin", sel)
                     /\ ~(/\ AccionResultado(sel, {"PENDIENTE", "PAGADA"}, "ANULADA")
                          /\ resp' = Cambiadas(sel, {"PENDIENTE", "PAGADA"}) \o " factura(s) anulada(s)"))

\* an action on one selected row reported one change while the other stored
\* invoice, in the state the action looks for, stayed as it was
C24_Witness ==
    /\ resp = "1 factura(s) marcada(s) como pagada(s)"
    /\ \E f \in facturas : f.estado = "PAGADA"
    /\ \E g \in facturas : g.estado = "PENDIENTE"

----------------------------------------------------------------------------
(* Claims about the status submitted to factura_crear *)

\* C25: a submission to factura_crear with the status ANULADA, a selectable
\* customer and one valid line, made while the timbrado gate is open, is
\* accepted and stores a new invoice in the state PENDIENTE
C25_AnuladaAceptada ==
    [][\A u \in Usuarios, datos \in FacturaEntradasVistas :
          (/\ datos.estado = "ANULADA"
           /\ TimbradoGate(get_activo(configs), hoy) = "ok"
           /\ \E c \in clientes : c.pk = datos.cliente /\ c.activo
           /\ resp' # resp
           /\ FacturaCrear(u, datos))
            => /\ resp' = "Factura creada exitosamente"
               /\ \E f \in facturas' \ facturas : f.estado = "PENDIENTE"]_vars

----------------------------------------------------------------------------
(* Claims about the registration of the timbrado of an invoice *)

\* the stored invoices after a registration of invoice pk with datos by user
\* u on the day ahora: the number without separators and the two dates are
\* stored, the registering user and time are set when none was recorded and
\* kept otherwise, and the row is stamped as saved
Registrada(pk, datos, u, ahora) ==
    LET f == Fila(facturas, pk)
        g == [f EXCEPT !.timbrado = SinSeparadores(datos.timbrado),
                       !.timbrado_fecha = datos.timbrado_fecha,
                       !.timbrado_vencimiento = datos.timbrado_vencimiento,
                       !.timbrado_por = IF f.timbrado_por = "nadie" THEN u ELSE f.timbrado_por,
                       !.timbrado_fecha_registro =
                           IF f.timbrado_por = "nadie" THEN ahora ELSE f.timbrado_fecha_registro,
                       !.fecha_actualizacion = ahora]
    IN  (facturas \ {f}) \cup {g}

\* C26: factura_añadir_timbrado changes nothing for an ANULADA invoice; for
\* any other active invoice a valid submission stores the timbrado number
\* and dates and sets timbrado_por and timbrado_fecha_registro only when no
\* registering user was recorded; once recorded, the registering user and
\* time of an invoice never change
C26_PrimerRegistro ==
    /\ [][\A u \in Staff, pk \in PksRegistro, datos \in TimbradoFacturaEntradasRegistro :
             (Existe(facturas, pk, TRUE) /\ FacturaAnadirTimbrado(u, pk, TRUE, datos))
               => IF Fila(facturas, pk).estado = "ANULADA"
                  THEN /\ facturas' = facturas
                       /\ resp' = "No se puede timbrar una factura anulada"
                  ELSE IF TimbradoForm_is_valid(datos)
                  THEN /\ facturas' = Registrada(pk, datos, u, hoy)
                       /\ resp' = "Timbrado anadido a factura"
                  ELSE facturas' = facturas]_vars
    /\ [][\A u \in Staff, pk \in PksRegistro :
             FacturaAnadirTimbrado(u, pk, FALSE, SinTimbrado) => facturas' = facturas]_vars

\* an invoice carries the timbrado of a later submission, saved on a later
\* day, while the registering user and time are those of the first one
C26_Witness ==
    /\ resp = "Timbrado anadido a factura"
    /\ \E f \in facturas :
          /\ f.timbrado = <<"8", "7", "6", "5", "4", "3", "2", "1">>
          /\ f.timbrado_por = "admin"
          /\ f.timbrado_fecha_registro = 0
          /\ f.fecha_actualizacion = 1

----------------------------------------------------------------------------
(* Claims about the transaction of factura_crear *)

----------------------------------------------------------------------------
(* Claims about the challenge shown in the void-confirmation page *)

\* C28: whenever the void-confirmation page is displayed, after a GET and
\* after a POST whose answer was refused, the two operands in the label of
\* the challenge are the operands stored in the session, whatever operands
\* the form drew when it was built
C28_EtiquetaDeLaSesion ==
    [][\A pk \in PksVistas, a \in Operandos, b \in Operandos :
          /\ (FacturaAnularGet("ana", pk, a, b) /\ session'["ana"] # <<>> /\ resp' = "ninguna")
                => FormularioAnularGet(a, b).label = session'["ana"]
          /\ \A respuesta \in Respuestas :
                (FacturaAnularPost("ana", pk, respuesta)
                    /\ resp' = "Captcha incorrecto. Intente nuevamente")
                  => FormularioAnularPost(session["ana"], a, b).label = session'["ana"]]_vars

----------------------------------------------------------------------------
(* Claims about the invoice a challenge was issued for *)

\* C29: a POST to the void page of an invoice voids it only when the
\* operands in the session were stored by a GET of the page of that same
\* invoice
C29_CaptchaDeSuFactura ==
    [][\A pk \in PksVistas, respuesta \in Respuestas :
          (FacturaAnularPost("ana", pk, respuesta) /\ resp' = "Factura anulada exitosamente")
            => session["ana"] = <<pk, pk>>]_vars

----------------------------------------------------------------------------
(* Claims about the numbers of the invoices stored by factura_crear *)

\* C30: every invoice stored by factura_crear carries a number of the form
\* EEE-PPP-NNNNNNNN and never a FAC- number, also when a timbrado_eliminar
\* or timbrado_configurar request of another user runs between the timbrado
\* gate and generar_numero_factura
C30_NuncaLegacy ==
    \A f \in facturas :
        /\ ~StartsWith(f.numero_factura, FAC)
        /\ Len(f.numero_factura) = 16
        /\ f.numero_factura[4] = "-" /\ f.numero_factura[8] = "-"

====
